---------------------------- MODULE Spec2Model ----------------------------
(***************************************************************************)
(* A model of the music-library scanner (backend/music_scanner.py), the    *)
(* tracks/artists/albums store it writes (backend/database.py), the track  *)
(* endpoints that change the same rows and the playlist endpoints          *)
(* (backend/main.py).                                                      *)
(*                                                                         *)
(* Text is a sequence of one-character strings, so that substring search,  *)
(* trimming, case folding and concatenation are computed as Python does    *)
(* them.  Python's None is the value None below, which is no text.         *)
(*                                                                         *)
(* What the model leaves out or fixes:                                     *)
(*  - scan_folder never yields the event loop (every await in it finishes  *)
(*    at once), so no endpoint runs while a scan is under way; files are   *)
(*    taken not to change during a scan either.                            *)
(*  - an id is the tagged text it is hashed from (no MD5 collisions).      *)
(*  - columns created_at, updated_at and added_at and the YouTube download *)
(*    endpoints are not modelled.                                          *)
(*  - in Spec the statements of add_track succeed; SpecStore has them fail.*)
(*                                                                         *)
(* Spec is the library of two tracks with the track endpoints; SpecParse   *)
(* and SpecTags are a library of one file with a generated name or tag,    *)
(* scanned; SpecStore is the store alone under add_track calls;            *)
(* SpecPlaylists is a library of two tracks with the playlist endpoints;   *)
(* SpecEnhance is a library of one track with the enhance endpoints;       *)
(* SpecAlbums is a library of two files with generated artist and album    *)
(* tags, scanned.                                                          *)
(***************************************************************************)
EXTENDS Integers, Sequences, FiniteSets, TLC

(***************************************************************************)
(* Bounds of the model.                                                    *)
(***************************************************************************)
MaxScans == 2      \* scan_folder calls in one behaviour
MaxCalls == 1      \* endpoint calls and file changes in one behaviour
MaxWords == 4      \* words in each part of a generated file name
MaxAdds == 3       \* add_track calls in one behaviour of the store alone
MaxDigits == 2     \* digits in the number of a generated tracknumber tag
MaxPlaylistCalls == 4  \* playlist calls and file changes in one behaviour with playlists
MaxEnhanceCalls == 2   \* calls beyond MaxCalls in one behaviour of the enhance endpoints
MaxParts == 2          \* hyphen-joined parts in a generated artist or album tag

(***************************************************************************)
(* Text primitives (Python str methods used by the scanner).               *)
(***************************************************************************)
None == <<"None">>

UPPER == <<"A","B","C","D","E","F","G","H","I","J","K","L","M","N","O","P","Q","R","S","T","U","V","W","X","Y","Z">>
LOWER == <<"a","b","c","d","e","f","g","h","i","j","k","l","m","n","o","p","q","r","s","t","u","v","w","x","y","z">>

\* the lower-case letter of every upper-case letter
ToLower == [c \in {UPPER[i] : i \in 1..Len(UPPER)} |->
               LOWER[CHOOSE i \in 1..Len(UPPER) : UPPER[i] = c]]

\* str.lower() on one character
LowerChar(c) == IF c \in DOMAIN ToLower THEN ToLower[c] ELSE c

\* str.lower()
Lower(s) == [i \in 1..Len(s) |-> LowerChar(s[i])]

\* the characters str.strip() and str.split() treat as whitespace
IsSpace(c) == c \in {" ", "\t", "\n", "\r"}

\* str.find(sub): the 1-based index of the first occurrence, 0 when there is none
Find(s, sub) ==
    LET hits == {i \in 1..(Len(s) - Len(sub) + 1) : SubSeq(s, i, i + Len(sub) - 1) = sub}
    IN  IF hits = {} THEN 0 ELSE CHOOSE i \in hits : \A j \in hits : i <= j

\* sub in s
Contains(s, sub) == Find(s, sub) # 0

\* str.strip()
Strip(s) ==
    LET keep == {i \in 1..Len(s) : ~IsSpace(s[i])}
    IN  IF keep = {} THEN <<>>
        ELSE SubSeq(s, CHOOSE i \in keep : \A j \in keep : i <= j,
                       CHOOSE i \in keep : \A j \in keep : i >= j)

\* len(s.split()): the number of maximal runs of non-whitespace
WordCount(s) ==
    Cardinality({i \in 1..Len(s) : ~IsSpace(s[i]) /\ (i = 1 \/ IsSpace(s[i - 1]))})

\* s.replace(old, ''): every non-overlapping occurrence removed, left to right
RECURSIVE Remove(_, _)
Remove(s, old) ==
    LET i == Find(s, old)
    IN  IF i = 0 \/ old = <<>> THEN s
        ELSE SubSeq(s, 1, i - 1) \o Remove(SubSeq(s, i + Len(old), Len(s)), old)

\* Python truthiness of an Optional[str]
Truthy(s) == s # None /\ s # <<>>

(***************************************************************************)
(* MusicScanner._parse_filename                                            *)
(***************************************************************************)
suffixes_to_remove == <<
    <<"(","O","f","f","i","c","i","a","l"," ","V","i","d","e","o",")">>,
    <<"(","O","f","f","i","c","i","a","l"," ","M","u","s","i","c"," ","V","i","d","e","o",")">>,
    <<"(","L","y","r","i","c","s",")">>,
    <<"(","O","f","f","i","c","i","a","l"," ","A","u","d","i","o",")">>,
    <<"(","A","u","d","i","o",")">>,
    <<"[","O","f","f","i","c","i","a","l"," ","V","i","d","e","o","]">>,
    <<"[","L","y","r","i","c","s","]">>,
    <<"(","L","y","r","i","c"," ","V","i","d","e","o",")">>,
    <<"(","M","u","s","i","c"," ","V","i","d","e","o",")">>,
    <<"O","f","f","i","c","i","a","l"," ","V","i","d","e","o">>,
    <<"L","y","r","i","c","s">>
  >>

SEPARATOR == <<" ","-"," ">>

\* one pass of the loop body: the first case-insensitive occurrence of suffix is cut out
RemoveSuffix(clean_name, suffix) ==
    LET idx == Find(Lower(clean_name), Lower(suffix))
    IN  IF idx = 0 THEN clean_name
        ELSE SubSeq(clean_name, 1, idx - 1)
               \o SubSeq(clean_name, idx + Len(suffix), Len(clean_name))

\* the loop over suffixes_to_remove, in list order, from the k-th phrase on
RECURSIVE RemoveSuffixes(_, _)
RemoveSuffixes(clean_name, k) ==
    IF k > Len(suffixes_to_remove) THEN clean_name
    ELSE RemoveSuffixes(RemoveSuffix(clean_name, suffixes_to_remove[k]), k + 1)

\* clean_name as it stands after the loop and the strip() that follows it
CleanName(filename) == Strip(RemoveSuffixes(filename, 1))

\* the word-count test as the "Title - Artist" pattern of the docstring would have it
SplitPartsSwapping(part1, part2) ==
    IF WordCount(part1) <= 3 /\ WordCount(part1) < WordCount(part2)
    THEN [artist |-> part1, title |-> part2]
    ELSE [artist |-> part2, title |-> part1]

\* lines 203-215: both branches of the word-count test build the same result
SplitParts(part1, part2) ==
    IF WordCount(part1) <= 3 /\ WordCount(part1) < WordCount(part2)
    THEN [artist |-> part1, title |-> part2]
    ELSE [artist |-> part1, title |-> part2]

\* _parse_filename as it would be if it gave the whole cleaned name as title when
\* there is no separator
SplitAtKeepingWhole(clean_name, i) ==
    IF i = 0 THEN [artist |-> None, title |-> clean_name]
    ELSE SplitParts(Strip(SubSeq(clean_name, 1, i - 1)),
                    Strip(SubSeq(clean_name, i + Len(SEPARATOR), Len(clean_name))))

\* clean_name.split(' - ', 1), given the index i of the first separator (0: none)
SplitAt(clean_name, i) ==
    IF i = 0 THEN [artist |-> None, title |-> None]
    ELSE SplitParts(Strip(SubSeq(clean_name, 1, i - 1)),
                    Strip(SubSeq(clean_name, i + Len(SEPARATOR), Len(clean_name))))

\* lines 196-217: if ' - ' in clean_name ... return {'artist': None, 'title': None}
SplitName(clean_name) == SplitAt(clean_name, Find(clean_name, SEPARATOR))

parse_filename(filename) == SplitName(CleanName(filename))

(***************************************************************************)
(* The channel-name check of MusicScanner.process_file                     *)
(***************************************************************************)
channel_keywords == <<
    <<"m","u","s","i","c">>,
    <<"o","f","f","i","c","i","a","l">>,
    <<"v","e","v","o">>,
    <<"r","e","c","o","r","d","s">>,
    <<"e","n","t","e","r","t","a","i","n","m","e","n","t">>,
    <<"m","e","d","i","a">>,
    <<"c","h","a","n","n","e","l">>,
    <<"v","i","d","e","o">>,
    <<"l","y","r","i","c","s">>
  >>

\* the keyword test without lower()
LooksLikeChannelExactCase(artist) ==
    \E k \in 1..Len(channel_keywords) : Contains(artist, channel_keywords[k])

\* any(keyword in artist.lower() for keyword in channel_keywords)
LooksLikeChannel(artist) ==
    \E k \in 1..Len(channel_keywords) : Contains(Lower(artist), channel_keywords[k])

UNKNOWN_ARTIST == <<"U","n","k","n","o","w","n"," ","A","r","t","i","s","t">>
UNKNOWN_ALBUM  == <<"U","n","k","n","o","w","n"," ","A","l","b","u","m">>

(***************************************************************************)
(* MusicScanner._get_tag: raw is audio.get(tag_name), None when the tag is *)
(* missing; whitespace-only values count as missing.                       *)
(***************************************************************************)
get_tag(raw) ==
    IF raw = None \/ raw = <<>> THEN None
    ELSE IF Strip(raw) = <<>> THEN None ELSE Strip(raw)

(***************************************************************************)
(* int(text) for the texts _get_track_number and _get_year hand to it:     *)
(* optional surrounding whitespace, an optional sign, decimal digits with  *)
(* single underscores allowed between them (ASCII digits only here).       *)
(* The result is <<n>>, or <<>> when int() raises ValueError.              *)
(***************************************************************************)
DIGITS == <<"0","1","2","3","4","5","6","7","8","9">>

IsDigit(c) == \E i \in 1..Len(DIGITS) : DIGITS[i] = c

DigitValue(c) == (CHOOSE i \in 1..Len(DIGITS) : DIGITS[i] = c) - 1

RECURSIVE DecimalValue(_)
DecimalValue(ds) ==
    IF ds = <<>> THEN 0
    ELSE 10 * DecimalValue(SubSeq(ds, 1, Len(ds) - 1)) + DigitValue(ds[Len(ds)])

NoInt == <<>>

\* datetime.now(), as stored in enhanced_at: some time, never NULL
NOW == <<"now">>

\* int() allows single underscores between digits
DigitsGrouped(ds) ==
    /\ ds # <<>>
    /\ \A i \in 1..Len(ds) :
           \/ IsDigit(ds[i])
           \/ /\ ds[i] = "_" /\ 1 < i /\ i < Len(ds)
              /\ IsDigit(ds[i - 1]) /\ IsDigit(ds[i + 1])

\* the digits ds of a stripped text t, after its sign if it has one
ParseDigits(t, ds) ==
    IF ~DigitsGrouped(ds) THEN NoInt
    ELSE IF t[1] = "-" THEN << 0 - DecimalValue(SelectSeq(ds, IsDigit)) >>
    ELSE << DecimalValue(SelectSeq(ds, IsDigit)) >>

ParseStripped(t) ==
    ParseDigits(t, IF t # <<>> /\ t[1] \in {"+", "-"} THEN Tail(t) ELSE t)

ParseInt(text) == ParseStripped(Strip(text))

\* the tag taken whole, as int(track) would
WholeTrack(track, i) == track

\* track.split('/')[0]
BeforeSlash(track, i) == IF i = 0 THEN track ELSE SubSeq(track, 1, i - 1)

\* the int() of a tag value that is there
TrackNumberOf(track) ==
    IF track = None THEN NoInt ELSE ParseInt(BeforeSlash(track, Find(track, <<"/">>)))

\* MusicScanner._get_track_number: int(track.split('/')[0]), None on any error
get_track_number(raw) == TrackNumberOf(get_tag(raw))

YearOf(date) ==
    IF date = None THEN NoInt
    ELSE ParseInt(SubSeq(date, 1, IF Len(date) < 4 THEN Len(date) ELSE 4))

\* MusicScanner._get_year: int(date[:4]), None on any error
get_year(raw) == YearOf(get_tag(raw))

(***************************************************************************)
(* MusicScanner._generate_id: the first 16 hex digits of the MD5 of the    *)
(* text.  The digest is not computed; an id is the tagged text, so equal   *)
(* texts give equal ids and different texts different ids (no collision).  *)
(***************************************************************************)
generate_id(text) == <<"md5:">> \o text

(***************************************************************************)
(* The metadata process_file settles on (its lines 67-99), from the file's *)
(* stem and its raw title, artist and album tags.                          *)
(***************************************************************************)
\* lines 77-82: parsed.get(key, default) finds the key even when its value is None,
\* so the defaults given to get() are never used
FilenameTitle(title, parsed) == IF ~Truthy(title) THEN parsed.title ELSE title

FilenameArtist(artist, parsed) == IF ~Truthy(artist) THEN parsed.artist ELSE artist

\* lines 84-91: the channel check
ChannelOverride(artist, parsed) ==
    IF Truthy(artist) /\ LooksLikeChannel(artist) /\ Truthy(parsed.artist)
    THEN parsed.artist ELSE artist

\* the final fallbacks without the one for the title
FallbacksButTitle(filename, title, artist, album) ==
    [title  |-> title,
     artist |-> IF ~Truthy(artist) THEN UNKNOWN_ARTIST ELSE artist,
     album  |-> IF ~Truthy(album) THEN UNKNOWN_ALBUM ELSE album]

\* lines 93-99: the final fallbacks
FinalFallbacks(filename, title, artist, album) ==
    [title  |-> IF ~Truthy(title) THEN filename ELSE title,
     artist |-> IF ~Truthy(artist) THEN UNKNOWN_ARTIST ELSE artist,
     album  |-> IF ~Truthy(album) THEN UNKNOWN_ALBUM ELSE album]

\* lines 77-99, given the three tags and what _parse_filename returns
Resolve(filename, title, artist, album, parsed) ==
    FinalFallbacks(filename, FilenameTitle(title, parsed),
                   ChannelOverride(FilenameArtist(artist, parsed), parsed), album)

ResolveMetadata(filename, raw_title, raw_artist, raw_album) ==
    Resolve(filename, get_tag(raw_title), get_tag(raw_artist), get_tag(raw_album),
            parse_filename(filename))

(***************************************************************************)
(* Files.  A path is Path(parent / (stem + suffix)); str(path) is what the *)
(* scanner hashes and stores.  A file's content is what mutagen, PIL and   *)
(* open() find in it.                                                      *)
(***************************************************************************)
SLASH == <<"/">>

PathStr(p) == p.parent \o SLASH \o p.stem \o p.suffix

SUPPORTED_FORMATS == { <<".","m","p","3">>, <<".","f","l","a","c">>, <<".","m","4","a">>, <<".","o","g","g">>, <<".","w","a","v">> }

ENHANCED_MARKER == <<"_","e","n","h","a","n","c","e","d">>

NoTags == [title |-> None, artist |-> None, album |-> None,
           tracknumber |-> None, date |-> None, genre |-> None]

\* kind: "audio" (mutagen reads it), "unsupported" (MutagenFile returns None),
\*       "corrupt" (MutagenFile raises), "text" / "undecodable" (a lyrics file)
\* picture: "none", "broken" (embedded data PIL cannot decode) or the picture's name
Audio(container, tags, picture, length_ms) ==
    [kind |-> "audio", container |-> container, tags |-> tags,
     picture |-> picture, length_ms |-> length_ms, text |-> None]

Unsupported == [kind |-> "unsupported", container |-> "none", tags |-> NoTags,
                picture |-> "none", length_ms |-> 0, text |-> None]

Corrupt == [kind |-> "corrupt", container |-> "none", tags |-> NoTags,
            picture |-> "none", length_ms |-> 0, text |-> None]

LyricsText(text) == [kind |-> "text", container |-> "none", tags |-> NoTags,
                     picture |-> "none", length_ms |-> 0, text |-> text]

Undecodable == [kind |-> "undecodable", container |-> "none", tags |-> NoTags,
                picture |-> "none", length_ms |-> 0, text |-> None]

VARIABLES
    fs,               \* the files under the music folder: path -> content
    folder_exists,    \* whether the music folder exists
    covers,           \* the files of ./covers: album id -> thumbnail
    tracks,           \* the rows of table tracks
    artists,          \* the rows of table artists
    albums,           \* the rows of table albums
    phase,            \* where scan_folder stands: "Idle", "Walking", "PerFileProcessing"
    standard_files,   \* scan_folder's local standard_files, the part not yet processed
    enhanced_files,   \* scan_folder's local enhanced_files: base key -> path
    scans,            \* the number of scan_folder calls that have returned
    snapshot,         \* table tracks as the previous scan_folder call left it
    calls,            \* the number of endpoint calls and file changes so far
    journal,          \* the scan under way: per file processed, what was committed
    playlists,        \* the rows of table playlists
    playlist_tracks,  \* the rows of table playlist_tracks
    last              \* the most recent call: what was called, on what, what it found and returned

vars == <<fs, folder_exists, covers, tracks, artists, albums, phase, standard_files,
          enhanced_files, scans, snapshot, calls, journal, playlists, playlist_tracks,
          last>>

Exists(path_str) == \E p \in DOMAIN fs : PathStr(p) = path_str

(***************************************************************************)
(* Table tracks (Database.init_db): a row holds every column but           *)
(* created_at.  NULL is None for text columns and NoInt for integers.      *)
(***************************************************************************)
RowsWithId(table, id) == {r \in table : r.id = id}

\* the row INSERT writes: the 13 columns given, the others at their defaults
NewRow(t) ==
    [id |-> t.id, title |-> t.title, artist |-> t.artist, artist_id |-> t.artist_id,
     album |-> t.album, album_id |-> t.album_id, duration_ms |-> t.duration_ms,
     track_number |-> t.track_number, year |-> t.year, genre |-> t.genre,
     file_path |-> t.file_path, image_path |-> t.image_path, lyrics |-> t.lyrics,
     is_saved |-> 0, play_count |-> 0, has_enhanced_version |-> 0,
     enhanced_file_path |-> None, enhancement_preset |-> None,
     enhanced_at |-> None]

\* a table without the primary key and without UNIQUE(file_path): INSERT adds a row
InsertUnconstrained(table, t) == table \cup {NewRow(t)}

\* an upsert (INSERT ... ON CONFLICT DO UPDATE of the 13 columns): the columns that
\* are not given keep what the row held
InsertOrUpdateTrack(table, t) ==
    {r \in table : r.id # t.id /\ r.file_path # t.file_path}
      \cup (IF RowsWithId(table, t.id) = {} THEN {NewRow(t)}
            ELSE {[NewRow(t) EXCEPT !.is_saved = old.is_saved,
                                    !.play_count = old.play_count,
                                    !.has_enhanced_version = old.has_enhanced_version,
                                    !.enhanced_file_path = old.enhanced_file_path,
                                    !.enhancement_preset = old.enhancement_preset,
                                    !.enhanced_at = old.enhanced_at]
                  : old \in RowsWithId(table, t.id)})

\* INSERT OR REPLACE INTO tracks (13 columns): rows that collide on the primary key
\* or on UNIQUE file_path are deleted; the other columns take their defaults
InsertOrReplaceTrack(table, t) ==
    {r \in table : r.id # t.id /\ r.file_path # t.file_path} \cup {NewRow(t)}

\* INSERT OR IGNORE: nothing happens when a row with the id is there
InsertOrIgnore(table, row) ==
    IF RowsWithId(table, row.id) # {} THEN table ELSE table \cup {row}

\* lines 170-186: the counts of the album and of the artist are set from table tracks
UpdateCounts(t, tracks1, artists1, albums1) ==
    [tracks  |-> tracks1,
     albums  |-> {IF a.id = t.album_id
                  THEN [a EXCEPT !.total_tracks =
                            Cardinality({r \in tracks1 : r.album_id = t.album_id})]
                  ELSE a : a \in albums1},
     artists |-> {IF a.id = t.artist_id
                  THEN [a EXCEPT !.total_tracks =
                            Cardinality({r \in tracks1 : r.artist_id = t.artist_id}),
                                 !.total_albums =
                            Cardinality({r.album_id :
                                           r \in {q \in tracks1 : q.artist_id = t.artist_id}})]
                  ELSE a : a \in artists1}]

\* Database.add_track: the three tables after the call
add_track(t) ==
    UpdateCounts(t,
        InsertOrReplaceTrack(tracks, t),
        InsertOrIgnore(artists,
            [id |-> t.artist_id, name |-> t.artist, total_albums |-> 0,
             total_tracks |-> 0, image_path |-> t.image_path]),
        InsertOrIgnore(albums,
            [id |-> t.album_id, name |-> t.album, artist |-> t.artist,
             artist_id |-> t.artist_id, year |-> t.year, total_tracks |-> 0,
             image_path |-> t.image_path, is_saved |-> 0]))

\* the three tables
Stored == [tracks |-> tracks, artists |-> artists, albums |-> albums]

\* lines 170-175: UPDATE albums SET total_tracks = (SELECT COUNT(*) ...) WHERE id = ?
UpdateAlbumCount(t, db) ==
    [db EXCEPT !.albums =
        {IF a.id = t.album_id
         THEN [a EXCEPT !.total_tracks =
                   Cardinality({r \in db.tracks : r.album_id = t.album_id})]
         ELSE a : a \in db.albums}]

\* lines 177-183: UPDATE artists SET total_tracks = ..., total_albums = ... WHERE id = ?
UpdateArtistCounts(t, db) ==
    [db EXCEPT !.artists =
        {IF a.id = t.artist_id
         THEN [a EXCEPT !.total_tracks =
                   Cardinality({r \in db.tracks : r.artist_id = t.artist_id}),
                        !.total_albums =
                   Cardinality({r.album_id :
                                  r \in {q \in db.tracks : q.artist_id = t.artist_id}})]
         ELSE a : a \in db.artists}]

\* the k-th of the five statements of add_track, run on the tables db
Statement(k, t, db) ==
    CASE k = 1 -> [db EXCEPT !.tracks = InsertOrReplaceTrack(db.tracks, t)]
      [] k = 2 -> [db EXCEPT !.artists =
                      InsertOrIgnore(db.artists,
                          [id |-> t.artist_id, name |-> t.artist, total_albums |-> 0,
                           total_tracks |-> 0, image_path |-> t.image_path])]
      [] k = 3 -> [db EXCEPT !.albums =
                      InsertOrIgnore(db.albums,
                          [id |-> t.album_id, name |-> t.album, artist |-> t.artist,
                           artist_id |-> t.artist_id, year |-> t.year,
                           total_tracks |-> 0, image_path |-> t.image_path,
                           is_saved |-> 0])]
      [] k = 4 -> UpdateAlbumCount(t, db)
      [] k = 5 -> UpdateArtistCounts(t, db)

\* the tables of the open transaction after the first k statements
RECURSIVE Executed(_, _, _)
Executed(t, k, db) ==
    IF k = 0 THEN db ELSE Statement(k, t, Executed(t, k - 1, db))

\* add_track without the rollback of line 188: what the statements wrote stays in
\* the connection's open transaction and is committed by the next commit
KeepPending(committed, pending) == pending

\* line 188: self.conn.rollback()
Rollback(committed, pending) == committed

\* the statements of add_track, and the operation that fails (or none)
STATEMENTS == 5
NoFailure == 0
COMMIT == STATEMENTS + 1

\* Database.add_track when its failed-th operation raises (statements 1 to 5, the
\* commit of line 185), or none does: the tables it leaves and what it logs
add_track_run(t, failed) ==
    IF failed = NoFailure
    THEN [db |-> add_track(t), result |-> "committed"]
    ELSE [db |-> Rollback(Stored, Executed(t, failed - 1, Stored)),
          result |-> "rolled back"]

(***************************************************************************)
(* MusicScanner._extract_album_art: what it returns and the cover folder   *)
(* it leaves.                                                              *)
(***************************************************************************)
CoverUrl(album_id) == <<"/","c","o","v","e","r","s","/">> \o album_id \o <<".","j","p","g">>

\* img.thumbnail((640, 640)); img.save(cover_path, "JPEG", quality=85)
Thumbnail(picture) == [thumbnail_of |-> picture]

\* lines 252-277: the embedded picture of an MP3, a FLAC or an MP4 file
ImageData(audio) ==
    IF audio.container \in {"MP3", "FLAC", "MP4"} THEN audio.picture ELSE "none"

\* lines 279-291: the picture is saved as the album's cover, if PIL can read it
SaveCover(album_id, image_data) ==
    IF image_data \in {"none", "broken"}
    THEN [image_path |-> None, covers |-> covers]
    ELSE [image_path |-> CoverUrl(album_id),
          covers |-> [a \in DOMAIN covers \cup {album_id} |->
                        IF a = album_id THEN Thumbnail(image_data) ELSE covers[a]]]

\* _extract_album_art without the early return of lines 248-250
ExtractAlbumArtAgain(file_path, album_id) == SaveCover(album_id, ImageData(fs[file_path]))

extract_album_art(file_path, album_id) ==
    IF album_id \in DOMAIN covers
    THEN [image_path |-> CoverUrl(album_id), covers |-> covers]
    ELSE SaveCover(album_id, ImageData(fs[file_path]))

(***************************************************************************)
(* MusicScanner.process_file                                               *)
(***************************************************************************)
LyricsFile(parent) == [parent |-> parent, stem |-> <<"l","y","r","i","c","s">>, suffix |-> <<".","l","r","c">>]

\* what the last call to _extract_album_art was given, found and returned
NoArtCall == [album_id |-> None, cover_before |-> {}, returned |-> None]

NoPath == [parent |-> None, stem |-> None, suffix |-> None]

Unchanged(outcome) ==
    [outcome |-> outcome, tracks |-> tracks, artists |-> artists, albums |-> albums,
     covers |-> covers, art |-> NoArtCall, commits |-> <<>>]

\* lines 117-125: the text of lyrics.lrc next to the file, None when it cannot be read
ReadLyrics(lyrics_file) ==
    IF lyrics_file \in DOMAIN fs /\ fs[lyrics_file].kind = "text"
    THEN fs[lyrics_file].text ELSE None

\* process_file without the UPDATE of lines 144-154
LinkNothing(table, track_id, enhanced_path) == table

\* lines 144-154: the row is linked to its enhanced sibling, if that file exists
LinkEnhanced(table, track_id, enhanced_path) ==
    IF enhanced_path # NoPath /\ enhanced_path \in DOMAIN fs
    THEN {IF r.id = track_id
          THEN [r EXCEPT !.has_enhanced_version = 1,
                         !.enhanced_file_path = PathStr(enhanced_path)]
          ELSE r : r \in table}
    ELSE table

\* the row of the file as each commit of process_file leaves it: the commit of
\* add_track (database.py line 185) and, for a file with an enhanced sibling, the
\* commit of line 153
Commits(track_id, enhanced_path, added) ==
    IF enhanced_path # NoPath /\ enhanced_path \in DOMAIN fs
    THEN << RowsWithId(added.tracks, track_id),
            RowsWithId(LinkEnhanced(added.tracks, track_id, enhanced_path), track_id) >>
    ELSE << RowsWithId(added.tracks, track_id) >>

\* what process_file leaves, given what add_track and _extract_album_art did
Written(track_id, album_id, enhanced_path, art, added) ==
    [outcome |-> "written",
     commits |-> Commits(track_id, enhanced_path, added),
     tracks  |-> LinkEnhanced(added.tracks, track_id, enhanced_path),
     artists |-> added.artists,
     albums  |-> added.albums,
     covers  |-> art.covers,
     art     |-> [album_id |-> album_id,
                  cover_before |-> IF album_id \in DOMAIN covers
                                   THEN {covers[album_id]} ELSE {},
                  returned |-> art.image_path]]

\* lines 101-112 and 128-142: the arguments add_track is called with
TrackRecord(file_path, audio, meta, track_id, album_id, image_path, lyrics) ==
    [id |-> track_id,
     title |-> meta.title, artist |-> meta.artist,
     artist_id |-> generate_id(meta.artist), album |-> meta.album,
     album_id |-> album_id, duration_ms |-> audio.length_ms,
     track_number |-> get_track_number(audio.tags.tracknumber),
     year |-> get_year(audio.tags.date),
     genre |-> get_tag(audio.tags.genre),
     file_path |-> PathStr(file_path),
     image_path |-> image_path,
     lyrics |-> lyrics]

\* lines 127-154, given the ids and what _extract_album_art returned
StoreTrack(file_path, enhanced_path, audio, meta, track_id, album_id, art) ==
    Written(track_id, album_id, enhanced_path, art,
            add_track(TrackRecord(file_path, audio, meta, track_id, album_id,
                                  art.image_path,
                                  ReadLyrics(LyricsFile(file_path.parent)))))

\* lines 109-115, given the album id
ExtractAndStore(file_path, enhanced_path, audio, meta, album_id) ==
    StoreTrack(file_path, enhanced_path, audio, meta, generate_id(PathStr(file_path)),
               album_id, extract_album_art(file_path, album_id))

\* lines 101-154, given the metadata settled on
ProcessAudio(file_path, enhanced_path, audio, meta) ==
    ExtractAndStore(file_path, enhanced_path, audio, meta,
                    generate_id(meta.artist \o <<"-">> \o meta.album))

\* process_file as it would be if a file mutagen cannot read lost its record
ProcessFileForgetting(file_path, enhanced_path) ==
    IF file_path \notin DOMAIN fs \/ fs[file_path].kind # "audio"
    THEN [Unchanged("raised") EXCEPT
              !.tracks = {r \in tracks : r.file_path # PathStr(file_path)}]
    ELSE ProcessAudio(file_path, enhanced_path, fs[file_path],
                      ResolveMetadata(file_path.stem, fs[file_path].tags.title,
                                      fs[file_path].tags.artist, fs[file_path].tags.album))

\* process_file as it would be if a picture PIL cannot decode raised out of
\* _extract_album_art, or an unreadable lyrics.lrc out of the inner try
ProcessFileFailingWhole(file_path, enhanced_path) ==
    IF file_path \notin DOMAIN fs \/ fs[file_path].kind \notin {"audio", "unsupported"}
    THEN Unchanged("raised")
    ELSE IF fs[file_path].kind = "unsupported"
    THEN Unchanged("skipped")
    ELSE IF \/ fs[file_path].picture = "broken"
            \/ /\ LyricsFile(file_path.parent) \in DOMAIN fs
               /\ fs[LyricsFile(file_path.parent)].kind # "text"
    THEN Unchanged("raised")
    ELSE ProcessAudio(file_path, enhanced_path, fs[file_path],
                      ResolveMetadata(file_path.stem, fs[file_path].tags.title,
                                      fs[file_path].tags.artist, fs[file_path].tags.album))

process_file(file_path, enhanced_path) ==
    IF file_path \notin DOMAIN fs \/ fs[file_path].kind \notin {"audio", "unsupported"}
    THEN Unchanged("raised")                    \* MutagenFile raises: caught at line 156
    ELSE IF fs[file_path].kind = "unsupported"
    THEN Unchanged("skipped")                   \* audio is None: return
    ELSE ProcessAudio(file_path, enhanced_path, fs[file_path],
                      ResolveMetadata(file_path.stem, fs[file_path].tags.title,
                                      fs[file_path].tags.artist, fs[file_path].tags.album))

(***************************************************************************)
(* MusicScanner.scan_folder                                                *)
(***************************************************************************)
\* str(parent / name)
JoinStr(parent, name) == IF name = <<>> THEN parent ELSE parent \o SLASH \o name

RECURSIVE Orderings(_)
Orderings(S) ==
    IF S = {} THEN {<<>>}
    ELSE UNION {{<<x>> \o q : q \in Orderings(S \ {x})} : x \in S}

\* music_files: for each extension in turn, every file rglob finds; the order of the
\* set of extensions and the order in which the file system lists files are not fixed
WalkOrders ==
    LET found == {p \in DOMAIN fs : p.suffix \in SUPPORTED_FORMATS}
    IN  {q \in Orderings(found) :
            \A i, k \in 1..Len(q) :
                (i < k /\ q[i].suffix = q[k].suffix) => q[i + 1].suffix = q[i].suffix}

\* the loop of lines 40-47 over the files from the k-th on
RECURSIVE Partition(_, _, _, _)
Partition(files, k, standard, enhanced) ==
    IF k > Len(files) THEN [standard_files |-> standard, enhanced_files |-> enhanced]
    ELSE LET file_path == files[k]
         IN  IF Contains(file_path.stem, ENHANCED_MARKER)
             THEN LET base_name == Remove(file_path.stem, ENHANCED_MARKER)
                      base_key  == JoinStr(file_path.parent, base_name)
                  IN  Partition(files, k + 1, standard,
                                [key \in DOMAIN enhanced \cup {base_key} |->
                                    IF key = base_key THEN file_path ELSE enhanced[key]])
             ELSE Partition(files, k + 1, Append(standard, file_path), enhanced)

Call(op, target, result, before, art) ==
    [op |-> op, target |-> target, result |-> result, before |-> before, art |-> art]

\* scan_folder is entered; the folder is walked and the files are partitioned
ScanStart ==
    /\ phase = "Idle"
    /\ scans < MaxScans
    /\ IF ~folder_exists
       THEN /\ folder_exists' = TRUE             \* mkdir, return
            /\ scans' = scans + 1
            /\ snapshot' = tracks
            /\ last' = Call("scan_folder", None, "folder created", {}, NoArtCall)
            /\ UNCHANGED <<phase, standard_files, enhanced_files>>
       ELSE /\ \E parts \in {Partition(files, 1, <<>>, <<>>) : files \in WalkOrders} :
                 /\ standard_files' = parts.standard_files
                 /\ enhanced_files' = parts.enhanced_files
            /\ phase' = "Walking"
            /\ last' = Call("scan_folder", None, "walked", {}, NoArtCall)
            /\ UNCHANGED <<folder_exists, scans, snapshot>>
    /\ journal' = <<>>
    /\ UNCHANGED <<fs, covers, tracks, artists, albums, calls, playlists, playlist_tracks>>

\* lines 52-56: the enhanced sibling recorded for the file, if any
EnhancedFor(base_key) ==
    IF base_key \in DOMAIN enhanced_files THEN enhanced_files[base_key] ELSE NoPath

\* what one process_file call leaves behind
Processed(file_path, track_id, done) ==
    /\ tracks' = done.tracks
    /\ artists' = done.artists
    /\ albums' = done.albums
    /\ covers' = done.covers
    /\ last' = Call("process_file", PathStr(file_path), done.outcome,
                    RowsWithId(tracks, track_id), done.art)
    /\ journal' = Append(journal, [file |-> file_path, commits |-> done.commits])

ProcessNext(file_path) ==
    Processed(file_path, generate_id(PathStr(file_path)),
              process_file(file_path, EnhancedFor(JoinStr(file_path.parent, file_path.stem))))

\* the loop as it would be without the try of line 52 and with process_file raising:
\* a file that cannot be processed ends the scan
ScanProcessFileAborting ==
    /\ phase \in {"Walking", "PerFileProcessing"}
    /\ standard_files # <<>>
    /\ ProcessNext(Head(standard_files))
    /\ phase' = "PerFileProcessing"
    /\ standard_files' = IF Head(standard_files) \in DOMAIN fs
                             /\ fs[Head(standard_files)].kind = "audio"
                          THEN Tail(standard_files) ELSE <<>>
    /\ UNCHANGED <<fs, folder_exists, enhanced_files, scans, snapshot, calls,
                   playlists, playlist_tracks>>

\* one turn of the loop of lines 51-58
ScanProcessFile ==
    /\ phase \in {"Walking", "PerFileProcessing"}
    /\ standard_files # <<>>
    /\ ProcessNext(Head(standard_files))
    /\ phase' = "PerFileProcessing"
    /\ standard_files' = Tail(standard_files)
    /\ UNCHANGED <<fs, folder_exists, enhanced_files, scans, snapshot, calls,
                   playlists, playlist_tracks>>

\* the loop is over: scan_folder returns
ScanReturn ==
    /\ phase \in {"Walking", "PerFileProcessing"}
    /\ standard_files = <<>>
    /\ phase' = "Idle"
    /\ scans' = scans + 1
    /\ snapshot' = tracks
    /\ enhanced_files' = <<>>
    /\ last' = Call("scan_folder", None, "returned", {}, NoArtCall)
    /\ journal' = <<>>
    /\ UNCHANGED <<fs, folder_exists, covers, tracks, artists, albums, standard_files, calls,
                   playlists, playlist_tracks>>

(***************************************************************************)
(* The library the behaviours are drawn from: two tracks of one album (one *)
(* an MP3 without a title tag, one a FLAC with all tags), an enhanced      *)
(* sibling of the first and a lyrics file, each of which may be missing    *)
(* and each with the contents listed.                                      *)
(***************************************************************************)
MUSIC_FOLDER == <<"m">>

MP3  == <<".","m","p","3">>
FLAC == <<".","f","l","a","c">>

TrackA    == [parent |-> MUSIC_FOLDER, stem |-> <<"a">>, suffix |-> MP3]
TrackB    == [parent |-> MUSIC_FOLDER, stem |-> <<"b">>, suffix |-> FLAC]
EnhancedA == [parent |-> MUSIC_FOLDER, stem |-> <<"a">> \o ENHANCED_MARKER, suffix |-> MP3]
Lyrics    == LyricsFile(MUSIC_FOLDER)

TagsA == [NoTags EXCEPT !.artist = <<"X">>, !.album = <<"L">>]
TagsB == [title |-> <<"T">>, artist |-> <<"X">>, album |-> <<"L">>,
          tracknumber |-> <<"3","/","1","2">>, date |-> <<"2","0","2","0","-","0","1","-","0","1">>, genre |-> <<"G">>]

Contents(p) ==
    IF p = TrackA THEN {Audio("MP3", TagsA, "none", 1000), Audio("MP3", TagsA, "picture1", 1000),
                        Audio("MP3", TagsA, "broken", 1000), Corrupt, Unsupported}
    ELSE IF p = TrackB THEN {Audio("FLAC", TagsB, "picture2", 2000)}
    ELSE IF p = EnhancedA THEN {Audio("MP3", TagsA, "none", 1000)}
    ELSE IF p = Lyrics THEN {LyricsText(<<"l","a">>), Undecodable}
    ELSE {}

LibraryPaths == {TrackA, TrackB, EnhancedA, Lyrics}

Trees ==
    UNION {{f \in [D -> UNION {Contents(p) : p \in D}] : \A p \in D : f[p] \in Contents(p)}
           : D \in SUBSET LibraryPaths}

\* the preset the enhance endpoint is called with (one of the five it accepts)
Presets == {<<"a","t","m","o","s">>}

\* the ids the endpoints are called with
TrackIds == {generate_id(PathStr(p)) : p \in {TrackA, TrackB}}

\* the text PUT /tracks/{id}/lyrics is called with
LyricsInputs == {<<"h","i">>}

(***************************************************************************)
(* Endpoints of main.py that change rows of table tracks.  They run on the *)
(* event loop, which scan_folder never yields, so none runs while a scan   *)
(* is under way.                                                           *)
(***************************************************************************)
\* UPDATE tracks SET <the columns of set> WHERE id = ?
UpdateRows(id, set) ==
    {IF r.id = id
     THEN [c \in DOMAIN r |-> IF c \in DOMAIN set THEN set[c] ELSE r[c]]
     ELSE r : r \in tracks}

Status(id) == IF RowsWithId(tracks, id) = {} THEN "404" ELSE "200"

EndpointCall ==
    /\ phase = "Idle"
    /\ calls < MaxCalls
    /\ calls' = calls + 1
    /\ UNCHANGED <<folder_exists, covers, artists, albums, phase, standard_files,
                   enhanced_files, scans, snapshot, journal, playlists, playlist_tracks>>

\* PUT /library/tracks/{track_id}: Database.save_track
save_track(track_id) ==
    /\ EndpointCall
    /\ tracks' = UpdateRows(track_id, [is_saved |-> 1])
    /\ last' = Call("save_track", track_id, Status(track_id),
                    RowsWithId(tracks, track_id), NoArtCall)
    /\ UNCHANGED fs

\* DELETE /library/tracks/{track_id}: Database.unsave_track
unsave_track(track_id) ==
    /\ EndpointCall
    /\ tracks' = UpdateRows(track_id, [is_saved |-> 0])
    /\ last' = Call("unsave_track", track_id, Status(track_id),
                    RowsWithId(tracks, track_id), NoArtCall)
    /\ UNCHANGED fs

\* PUT /tracks/{track_id}/lyrics
update_track_lyrics(track_id, lyrics) ==
    /\ EndpointCall
    /\ tracks' = UpdateRows(track_id, [lyrics |-> lyrics])
    /\ last' = Call("update_track_lyrics", track_id, Status(track_id),
                    RowsWithId(tracks, track_id), NoArtCall)
    /\ UNCHANGED fs

PathOf(path_str) == CHOOSE p \in DOMAIN fs : PathStr(p) = path_str

\* the enhance endpoint without the check of lines 242-250
NeverAlreadyEnhanced(row, preset) == FALSE

\* main.py lines 242-244: the row holds an enhanced file of this preset, which exists
AlreadyEnhanced(row, preset) ==
    /\ Truthy(row.enhanced_file_path)
    /\ row.enhancement_preset = preset
    /\ Exists(row.enhanced_file_path)

\* POST /tracks/{track_id}/enhance; ffmpeg_ok is whether the FFmpeg run succeeds
enhance_track(track_id, preset, ffmpeg_ok) ==
    /\ EndpointCall
    /\ LET rows   == RowsWithId(tracks, track_id)
           before == RowsWithId(tracks, track_id)
       IN  IF rows = {}
           THEN /\ last' = Call("enhance_track", track_id, "404 Track not found",
                                before, NoArtCall)
                /\ UNCHANGED <<fs, tracks>>
           ELSE LET row == CHOOSE r \in rows : TRUE
                IN  IF ~Exists(row.file_path)
                    THEN /\ last' = Call("enhance_track", track_id,
                                         "404 Audio file not found", before, NoArtCall)
                         /\ UNCHANGED <<fs, tracks>>
                    ELSE IF AlreadyEnhanced(row, preset)
                    THEN /\ last' = Call("enhance_track", track_id, "already_exists",
                                         before, NoArtCall)
                         /\ UNCHANGED <<fs, tracks>>
                    ELSE LET file_path == PathOf(row.file_path)
                             enhanced_filepath ==
                                 [parent |-> file_path.parent,
                                  stem |-> file_path.stem \o ENHANCED_MARKER
                                             \o <<"_">> \o preset,
                                  suffix |-> file_path.suffix]
                             enhanced ==
                                 [has_enhanced_version |-> 1,
                                  enhanced_file_path |-> PathStr(enhanced_filepath),
                                  enhanced_at |-> NOW,
                                  enhancement_preset |-> preset]
                         IN  IF ~ffmpeg_ok
                             THEN /\ last' = Call("enhance_track", track_id,
                                                  "500 Audio enhancement failed",
                                                  before, NoArtCall)
                                  /\ UNCHANGED <<fs, tracks>>
                             ELSE /\ fs' = [p \in DOMAIN fs \cup {enhanced_filepath} |->
                                              IF p = enhanced_filepath THEN fs[file_path]
                                              ELSE fs[p]]
                                  /\ tracks' = UpdateRows(track_id, enhanced)
                                  /\ last' = Call("enhance_track", track_id, "enhanced",
                                                  before, NoArtCall)

\* the UPDATE of main.py lines 310-317 without its enhanced_file_path = NULL
ResetFlagOnly ==
    [has_enhanced_version |-> 0, enhanced_at |-> None, enhancement_preset |-> None]

\* main.py lines 310-317: what the UPDATE of delete_enhanced_version sets
ResetEnhanced ==
    [has_enhanced_version |-> 0, enhanced_file_path |-> None,
     enhanced_at |-> None, enhancement_preset |-> None]

\* DELETE /tracks/{track_id}/enhanced
delete_enhanced_version(track_id) ==
    /\ EndpointCall
    /\ LET rows == RowsWithId(tracks, track_id)
       IN  IF rows = {} \/ \A r \in rows : ~Truthy(r.enhanced_file_path)
           THEN /\ last' = Call("delete_enhanced_version", track_id,
                                "404 No enhanced version found", rows, NoArtCall)
                /\ UNCHANGED <<fs, tracks>>
           ELSE LET row == CHOOSE r \in rows : TRUE
                IN  /\ fs' = [p \in {q \in DOMAIN fs : PathStr(q) # row.enhanced_file_path}
                                |-> fs[p]]
                    /\ tracks' = UpdateRows(track_id, ResetEnhanced)
                    /\ last' = Call("delete_enhanced_version", track_id, "deleted",
                                    rows, NoArtCall)

(***************************************************************************)
(* Catalog reads of database.py that return tracks, as the set of rows     *)
(* they select.  ORDER BY, LIMIT/OFFSET and the search filter only order   *)
(* or narrow that set and are left out; _format_track_response keeps the   *)
(* row's id and file_path.                                                 *)
(***************************************************************************)
get_tracks(only_available) ==
    IF only_available THEN {r \in tracks : Exists(r.file_path)} ELSE tracks

get_track(track_id) == RowsWithId(tracks, track_id)

get_album_tracks(album_id) == {r \in tracks : r.album_id = album_id}

get_artist_tracks(artist_id) == {r \in tracks : r.artist_id = artist_id}

get_saved_tracks == {r \in tracks : r.is_saved = 1}

\* seeded by a track: the other tracks of its artist, genre or album
SimilarTo(track_id, seeds) ==
    {r \in tracks : /\ r.id # track_id
                     /\ \E seed \in seeds : \/ r.artist_id = seed.artist_id
                                            \/ (seed.genre # None /\ r.genre = seed.genre)
                                            \/ r.album_id = seed.album_id}

\* track_id and artist_id are None when the caller gives no seed
get_recommendations(track_id, artist_id) ==
    IF track_id # None THEN SimilarTo(track_id, get_track(track_id))
    ELSE IF artist_id # None THEN {r \in tracks : r.artist_id = artist_id}
    ELSE tracks

(***************************************************************************)
(* What happens to the library outside the program, between two calls.     *)
(***************************************************************************)
FileChange ==
    /\ phase = "Idle"
    /\ folder_exists
    /\ calls < MaxCalls
    /\ calls' = calls + 1
    /\ UNCHANGED <<folder_exists, covers, tracks, artists, albums, phase, standard_files,
                   enhanced_files, scans, snapshot, journal, playlists, playlist_tracks>>

\* a file is deleted
DeleteFile(p) ==
    /\ FileChange
    /\ p \in DOMAIN fs
    /\ fs' = [q \in DOMAIN fs \ {p} |-> fs[q]]
    /\ last' = Call("DeleteFile", PathStr(p), "deleted", {}, NoArtCall)

\* a file is added, or written over with another content
WriteFile(p, content) ==
    /\ FileChange
    /\ IF p \in DOMAIN fs THEN fs[p] # content ELSE TRUE
    /\ fs' = [q \in DOMAIN fs \cup {p} |-> IF q = p THEN content ELSE fs[q]]
    /\ last' = Call("WriteFile", PathStr(p), "written", {}, NoArtCall)

(***************************************************************************)
(* The program after construction (main.py lines 21-24 and db.init_db on   *)
(* a new database file), before the scan of the lifespan handler.          *)
(***************************************************************************)
Init ==
    /\ folder_exists \in BOOLEAN
    /\ fs \in IF folder_exists THEN Trees ELSE {<<>>}
    /\ covers = <<>>
    /\ tracks = {}
    /\ artists = {}
    /\ albums = {}
    /\ phase = "Idle"
    /\ standard_files = <<>>
    /\ enhanced_files = <<>>
    /\ scans = 0
    /\ snapshot = {}
    /\ calls = 0
    /\ journal = <<>>
    /\ playlists = {}
    /\ playlist_tracks = {}
    /\ last = Call("init", None, "none", {}, NoArtCall)

Next ==
    \/ ScanStart
    \/ ScanProcessFile
    \/ ScanReturn
    \/ \E id \in TrackIds : save_track(id)
    \/ \E id \in TrackIds : unsave_track(id)
    \/ \E id \in TrackIds, lyrics \in LyricsInputs : update_track_lyrics(id, lyrics)
    \/ \E id \in TrackIds, preset \in Presets, ffmpeg_ok \in BOOLEAN :
           enhance_track(id, preset, ffmpeg_ok)
    \/ \E id \in TrackIds : delete_enhanced_version(id)
    \/ \E p \in LibraryPaths : DeleteFile(p)
    \/ \E p \in LibraryPaths : \E content \in Contents(p) : WriteFile(p, content)

Spec == Init /\ [][Next]_vars

\* where the scan under way stands
scan_position == <<phase, standard_files>>

\* the scan takes its next turn, whatever that turn does to the catalog: the next
\* file is taken off the list, or the list is empty and scan_folder returns
ScanTurn ==
    /\ phase \in {"Walking", "PerFileProcessing"}
    /\ standard_files' = IF standard_files = <<>> THEN <<>> ELSE Tail(standard_files)
    /\ phase' = IF standard_files = <<>> THEN "Idle" ELSE "PerFileProcessing"

\* scan_folder has no await that waits on anything but its own work, and every step
\* of it returns (process_file catches what it raises): once entered, the scan goes
\* on taking turns (the steps ScanProcessFile and ScanReturn) until it returns
SpecLive == Spec /\ WF_scan_position(ScanTurn)

(***************************************************************************)
(* A library of one file, for the metadata process_file settles on: the    *)
(* file's name is put together from a left part, a separator, a noise      *)
(* phrase, a right part and a trailing noise phrase, and its tags are one  *)
(* of the tag sets below.  The folder is then scanned.                     *)
(***************************************************************************)
RECURSIVE Words(_, _)
Words(word, n) ==
    IF n = 0 THEN <<>>
    ELSE IF n = 1 THEN word
    ELSE word \o <<" ">> \o Words(word, n - 1)

EXAMPLE_NAME == <<"A"," ","-"," ","T"," ","(","O","f","f","i","c","i","a","l"," ","V","i","d","e","o",")">>

Stems ==
    {left \o sep \o noise \o right \o trailing :
        left \in {Words(<<"A">>, n) : n \in 0..MaxWords},
        sep \in {<<" ","-"," ">>, <<" ","-">>, <<" ">>},
        noise \in {<<>>, <<"(","A","u","d","i","o",")">>, <<"(","A","u","d","i","o",")"," ">>},
        right \in {Words(<<"T">>, n) : n \in 0..MaxWords},
        trailing \in {<<>>, <<" ","(","O","f","f","i","c","i","a","l"," ","V","i","d","e","o",")">>, <<" ","L","Y","R","I","C","S">>}} \ {<<>>}

TagSets ==
    {NoTags,
     [NoTags EXCEPT !.title = <<"S">>],
     [NoTags EXCEPT !.artist = <<"X">>, !.album = <<"L">>],
     [NoTags EXCEPT !.artist = <<"Y"," ","V","E","V","O">>],
     [NoTags EXCEPT !.title = <<"S">>, !.artist = <<"V","e","v","o"," ","Z">>, !.album = <<"L">>],
     [NoTags EXCEPT !.title = <<" ">>, !.artist = <<" ">>, !.album = <<" ">>]}

InitParse ==
    /\ folder_exists = TRUE
    /\ \E stem \in Stems : \E tags \in TagSets :
          fs = [p \in {[parent |-> MUSIC_FOLDER, stem |-> stem, suffix |-> MP3]}
                  |-> Audio("MP3", tags, "none", 1000)]
    /\ covers = <<>>
    /\ tracks = {}
    /\ artists = {}
    /\ albums = {}
    /\ phase = "Idle"
    /\ standard_files = <<>>
    /\ enhanced_files = <<>>
    /\ scans = 0
    /\ snapshot = {}
    /\ calls = 0
    /\ journal = <<>>
    /\ playlists = {}
    /\ playlist_tracks = {}
    /\ last = Call("init", None, "none", {}, NoArtCall)

NextParse ==
    \/ ScanStart
    \/ ScanProcessFile
    \/ ScanReturn

SpecParse == InitParse /\ [][NextParse]_vars

(***************************************************************************)
(* A library of one file with a generated tracknumber tag: white space, a  *)
(* sign, digits, white space and a rest, each of which may be missing.     *)
(* The folder is then scanned.                                             *)
(***************************************************************************)
RECURSIVE Numerals(_)
Numerals(n) ==
    IF n = 0 THEN {<<>>}
    ELSE Numerals(n - 1) \cup
         {Append(ds, d) : ds \in {q \in Numerals(n - 1) : Len(q) = n - 1},
                          d \in {"0", "3", "_"}}

TrackNumberTags ==
    {None} \cup
    {lead \o sign \o numeral \o gap \o rest :
        lead \in {<<>>, <<" ">>},
        sign \in {<<>>, <<"+">>, <<"-">>},
        numeral \in Numerals(MaxDigits),
        gap \in {<<>>, <<" ">>},
        rest \in {<<>>, <<"/">>, <<"/","1","2">>, <<"x">>, <<"/","x">>}}

TaggedFile == [parent |-> MUSIC_FOLDER, stem |-> <<"t">>, suffix |-> MP3]

InitTags ==
    /\ folder_exists = TRUE
    /\ \E tracknumber \in TrackNumberTags :
          fs = [p \in {TaggedFile} |->
                  Audio("MP3", [TagsA EXCEPT !.tracknumber = tracknumber], "none", 1000)]
    /\ covers = <<>>
    /\ tracks = {}
    /\ artists = {}
    /\ albums = {}
    /\ phase = "Idle"
    /\ standard_files = <<>>
    /\ enhanced_files = <<>>
    /\ scans = 0
    /\ snapshot = {}
    /\ calls = 0
    /\ journal = <<>>
    /\ playlists = {}
    /\ playlist_tracks = {}
    /\ last = Call("init", None, "none", {}, NoArtCall)

NextTags ==
    \/ ScanStart
    \/ ScanProcessFile
    \/ ScanReturn

SpecTags == InitTags /\ [][NextTags]_vars

(***************************************************************************)
(* The store alone: add_track is called, as process_file and the download  *)
(* endpoint call it (the id derived from the path, artist_id and album_id  *)
(* from the names), with the tags of a file changing from call to call,    *)
(* and any of its statements or its commit may fail.                       *)
(***************************************************************************)
StoreArtists == {<<"X">>, <<"Y">>}
StoreAlbums  == {<<"L">>, <<"M">>}

AddInputs ==
    {TrackRecord(p, Audio("MP3", NoTags, "none", 1000),
                 [title |-> <<"T">>, artist |-> artist, album |-> album],
                 generate_id(PathStr(p)),
                 generate_id(artist \o <<"-">> \o album), None, None) :
        p \in {TrackA, TrackB}, artist \in StoreArtists, album \in StoreAlbums}

InitStore ==
    /\ folder_exists = TRUE
    /\ fs = <<>>
    /\ covers = <<>>
    /\ tracks = {}
    /\ artists = {}
    /\ albums = {}
    /\ phase = "Idle"
    /\ standard_files = <<>>
    /\ enhanced_files = <<>>
    /\ scans = 0
    /\ snapshot = {}
    /\ calls = 0
    /\ journal = <<>>
    /\ playlists = {}
    /\ playlist_tracks = {}
    /\ last = Call("init", None, "none", {}, NoArtCall)

\* what one add_track call leaves behind
Added(t, done) ==
    /\ tracks' = done.db.tracks
    /\ artists' = done.db.artists
    /\ albums' = done.db.albums
    /\ last' = Call("add_track", t.id, done.result, RowsWithId(tracks, t.id), NoArtCall)

AddTrackCall(t, failed) ==
    /\ calls < MaxAdds
    /\ calls' = calls + 1
    /\ Added(t, add_track_run(t, failed))
    /\ UNCHANGED <<fs, folder_exists, covers, phase, standard_files, enhanced_files,
                   scans, snapshot, journal, playlists, playlist_tracks>>

NextStore == \E t \in AddInputs, failed \in NoFailure..COMMIT : AddTrackCall(t, failed)

SpecStore == InitStore /\ [][NextStore]_vars

(***************************************************************************)
(* Playlists (database.py lines 400-500, main.py lines 482-543).  A row of *)
(* table playlists is its id, name and description; a row of table         *)
(* playlist_tracks is playlist_id, track_id and position.  The connection  *)
(* is opened without PRAGMA foreign_keys, so SQLite does not enforce the   *)
(* FOREIGN KEY clauses of playlist_tracks: no statement on tracks or on    *)
(* playlists touches a row of playlist_tracks.                             *)
(***************************************************************************)
\* the ids uuid4 may draw
PlaylistIds == {<<"p","1">>, <<"p","2">>}

RowsOfPlaylist(playlist_id) == {pt \in playlist_tracks : pt.playlist_id = playlist_id}

\* the position taken from the number of rows instead of the greatest position
CountedPosition(rows) == Cardinality(rows)

\* SELECT MAX(position) ... or 0
MaxPosition(rows) ==
    IF rows = {} THEN 0
    ELSE CHOOSE n \in {pt.position : pt \in rows} : \A pt \in rows : pt.position <= n

\* ORDER BY pt.position
RECURSIVE ByPosition(_)
ByPosition(rows) ==
    IF rows = {} THEN <<>>
    ELSE LET first == CHOOSE pt \in rows : \A q \in rows : pt.position <= q.position
         IN  <<first.track_id>> \o ByPosition(rows \ {first})

\* lines 420-427: the ids of the rows of table (tracks) joined with the rows of the
\* playlist, in the order of position
PlaylistItems(playlist_id, table) ==
    ByPosition({pt \in RowsOfPlaylist(playlist_id) : RowsWithId(table, pt.track_id) # {}})

\* Database.get_playlist: None when there is no such playlist
get_playlist(playlist_id) ==
    IF RowsWithId(playlists, playlist_id) = {}
    THEN [found |-> FALSE, items |-> <<>>]
    ELSE [found |-> TRUE, items |-> PlaylistItems(playlist_id, tracks)]

\* main.py lines 950-953: the body of the try of get_playlist_tracks_alt, which
\* raises HTTPException for a playlist that get_playlist does not find
PlaylistTracksOrRaise(playlist_id) ==
    IF get_playlist(playlist_id).found
    THEN [raised |-> FALSE, status |-> "200", items |-> get_playlist(playlist_id).items]
    ELSE [raised |-> TRUE, status |-> "404 Playlist not found", items |-> <<>>]

\* main.py lines 954-956: except Exception catches the HTTPException as well and
\* the handler returns {"items": []}
CaughtAndEmptied(tried) ==
    IF tried.raised THEN [raised |-> FALSE, status |-> "200", items |-> <<>>] ELSE tried

\* GET /playlists/{playlist_id}/tracks: the answer
get_playlist_tracks_alt(playlist_id) == CaughtAndEmptied(PlaylistTracksOrRaise(playlist_id))

PlaylistCall ==
    /\ phase = "Idle"
    /\ calls < MaxPlaylistCalls
    /\ calls' = calls + 1
    /\ UNCHANGED <<fs, folder_exists, covers, tracks, artists, albums, phase,
                   standard_files, enhanced_files, scans, snapshot, journal>>

\* POST /playlists: the id is one no row holds
create_playlist(playlist_id, name) ==
    /\ PlaylistCall
    /\ RowsWithId(playlists, playlist_id) = {}
    /\ RowsOfPlaylist(playlist_id) = {}
    /\ playlists' = playlists \cup {[id |-> playlist_id, name |-> name,
                                     description |-> None]}
    /\ last' = Call("create_playlist", playlist_id, "200", {}, NoArtCall)
    /\ UNCHANGED playlist_tracks

\* DELETE /playlists/{playlist_id}
delete_playlist(playlist_id) ==
    /\ PlaylistCall
    /\ playlists' = {p \in playlists : p.id # playlist_id}
    /\ last' = Call("delete_playlist", playlist_id,
                    IF RowsWithId(playlists, playlist_id) = {}
                    THEN "404 Playlist not found" ELSE "200",
                    RowsOfPlaylist(playlist_id), NoArtCall)
    /\ UNCHANGED playlist_tracks

\* the name and the description PUT /playlists/{playlist_id} is called with: omitted
\* (None), empty, or a text
PlaylistUpdates == {None, <<>>, <<"M">>}

\* lines 453-458: the statements update_playlist executes leave the name and the
\* description of the row
UpdatedPlaylist(row, name, description) ==
    [row EXCEPT !.name = IF Truthy(name) THEN name ELSE @,
                !.description = IF description # None THEN description ELSE @]

\* cursor.rowcount at line 461: the rows the last UPDATE executed on the cursor
\* changed, and -1 when the cursor executed no statement
UpdateRowcount(playlist_id, name, description) ==
    IF Truthy(name) \/ description # None
    THEN Cardinality(RowsWithId(playlists, playlist_id))
    ELSE -1

\* PUT /playlists/{playlist_id}
update_playlist(playlist_id, name, description) ==
    /\ PlaylistCall
    /\ playlists' = {IF row.id = playlist_id
                     THEN UpdatedPlaylist(row, name, description)
                     ELSE row : row \in playlists}
    /\ last' = Call("update_playlist", playlist_id,
                    IF UpdateRowcount(playlist_id, name, description) > 0
                    THEN "200" ELSE "404 Playlist not found",
                    RowsWithId(playlists, playlist_id), NoArtCall)
    /\ UNCHANGED playlist_tracks

\* POST /playlists/{playlist_id}/tracks: the INSERT fails on the primary key
\* (playlist_id, track_id) only
add_track_to_playlist(playlist_id, track_id) ==
    /\ PlaylistCall
    /\ IF \E pt \in RowsOfPlaylist(playlist_id) : pt.track_id = track_id
       THEN /\ last' = Call("add_track_to_playlist", track_id,
                            "404 Playlist or track not found",
                            RowsOfPlaylist(playlist_id), NoArtCall)
            /\ UNCHANGED playlist_tracks
       ELSE /\ playlist_tracks' = playlist_tracks \cup
                   {[playlist_id |-> playlist_id, track_id |-> track_id,
                     position |-> MaxPosition(RowsOfPlaylist(playlist_id)) + 1]}
            /\ last' = Call("add_track_to_playlist", track_id, "200",
                            RowsOfPlaylist(playlist_id), NoArtCall)
    /\ UNCHANGED playlists

\* DELETE /playlists/{playlist_id}/tracks/{track_id}: cursor.rowcount is that of the
\* UPDATE of playlists that follows the DELETE
remove_track_from_playlist(playlist_id, track_id) ==
    /\ PlaylistCall
    /\ playlist_tracks' = {pt \in playlist_tracks :
                              ~(pt.playlist_id = playlist_id /\ pt.track_id = track_id)}
    /\ last' = Call("remove_track_from_playlist", track_id,
                    IF RowsWithId(playlists, playlist_id) = {}
                    THEN "404 Playlist or track not found" ELSE "200",
                    RowsOfPlaylist(playlist_id), NoArtCall)
    /\ UNCHANGED playlists

(***************************************************************************)
(* A library with playlists: the folder holds the first track, the second  *)
(* may be put there later; the folder is scanned and scanned again, and    *)
(* the playlist endpoints are called in between.                           *)
(***************************************************************************)
InitPlaylists ==
    /\ folder_exists = TRUE
    /\ fs = [p \in {TrackA} |-> Audio("MP3", TagsA, "none", 1000)]
    /\ covers = <<>>
    /\ tracks = {}
    /\ artists = {}
    /\ albums = {}
    /\ phase = "Idle"
    /\ standard_files = <<>>
    /\ enhanced_files = <<>>
    /\ scans = 0
    /\ snapshot = {}
    /\ calls = 0
    /\ journal = <<>>
    /\ playlists = {}
    /\ playlist_tracks = {}
    /\ last = Call("init", None, "none", {}, NoArtCall)

NextPlaylists ==
    \/ ScanStart
    \/ ScanProcessFile
    \/ ScanReturn
    \/ \E content \in Contents(TrackB) : WriteFile(TrackB, content)
    \/ \E playlist_id \in PlaylistIds, name \in {<<"N">>} :
           create_playlist(playlist_id, name)
    \/ \E playlist_id \in PlaylistIds : delete_playlist(playlist_id)
    \/ \E playlist_id \in PlaylistIds, name \in PlaylistUpdates,
          description \in PlaylistUpdates :
           update_playlist(playlist_id, name, description)
    \/ \E playlist_id \in PlaylistIds, track_id \in TrackIds :
           add_track_to_playlist(playlist_id, track_id)
    \/ \E playlist_id \in PlaylistIds, track_id \in TrackIds :
           remove_track_from_playlist(playlist_id, track_id)

SpecPlaylists == InitPlaylists /\ [][NextPlaylists]_vars

(***************************************************************************)
(* A library of one track with the enhance endpoints: the folder is        *)
(* scanned, the track is enhanced with one of two presets, enhanced again, *)
(* its enhanced version or a file is deleted, the folder is scanned again. *)
(* The counter calls starts below zero, so that a behaviour has            *)
(* MaxCalls + MaxEnhanceCalls calls.                                       *)
(***************************************************************************)
EnhancePresets == {<<"a","t","m","o","s">>, <<"c","l","a","r","i","t","y">>}

InitEnhance ==
    /\ folder_exists = TRUE
    /\ fs = [p \in {TrackB} |-> Audio("FLAC", TagsB, "none", 2000)]
    /\ covers = <<>>
    /\ tracks = {}
    /\ artists = {}
    /\ albums = {}
    /\ phase = "Idle"
    /\ standard_files = <<>>
    /\ enhanced_files = <<>>
    /\ scans = 0
    /\ snapshot = {}
    /\ calls = 0 - MaxEnhanceCalls
    /\ journal = <<>>
    /\ playlists = {}
    /\ playlist_tracks = {}
    /\ last = Call("init", None, "none", {}, NoArtCall)

NextEnhance ==
    \/ ScanStart
    \/ ScanProcessFile
    \/ ScanReturn
    \/ \E preset \in EnhancePresets, ffmpeg_ok \in BOOLEAN :
           enhance_track(generate_id(PathStr(TrackB)), preset, ffmpeg_ok)
    \/ delete_enhanced_version(generate_id(PathStr(TrackB)))
    \/ \E p \in DOMAIN fs : DeleteFile(p)

SpecEnhance == InitEnhance /\ [][NextEnhance]_vars

(***************************************************************************)
(* A library of two tagged files whose artist and album tags are generated *)
(* names, some of them with hyphens.  The folder is then scanned.          *)
(***************************************************************************)
RECURSIVE Hyphenated(_, _)
Hyphenated(word, n) ==
    IF n = 1 THEN word ELSE word \o <<"-">> \o Hyphenated(word, n - 1)

TagNames == {Hyphenated(<<"A">>, n) : n \in 1..MaxParts} \cup {<<"B">>}

\* lines 109-112: the text hashed for album_id
AlbumKey(artist, album) == artist \o <<"-">> \o album

InitAlbums ==
    /\ folder_exists = TRUE
    /\ \E artist1 \in TagNames, album1 \in TagNames,
          artist2 \in TagNames, album2 \in TagNames :
          fs = [p \in {TrackA, TrackB} |->
                  IF p = TrackA
                  THEN Audio("MP3", [TagsB EXCEPT !.artist = artist1, !.album = album1],
                             "none", 1000)
                  ELSE Audio("FLAC", [TagsB EXCEPT !.artist = artist2, !.album = album2],
                             "none", 2000)]
    /\ covers = <<>>
    /\ tracks = {}
    /\ artists = {}
    /\ albums = {}
    /\ phase = "Idle"
    /\ standard_files = <<>>
    /\ enhanced_files = <<>>
    /\ scans = 0
    /\ snapshot = {}
    /\ calls = 0
    /\ journal = <<>>
    /\ playlists = {}
    /\ playlist_tracks = {}
    /\ last = Call("init", None, "none", {}, NoArtCall)

NextAlbums ==
    \/ ScanStart
    \/ ScanProcessFile
    \/ ScanReturn

SpecAlbums == InitAlbums /\ [][NextAlbums]_vars

(***************************************************************************)
(* Properties of the scanner and the catalog.                              *)
(***************************************************************************)
\* the second scan_folder call in a row has processed its last file
SecondScanDone ==
    calls = 0 /\ scans = 1 /\ phase = "PerFileProcessing" /\ standard_files = <<>>

\* C1 (scan idempotence): starting from an empty catalog and an empty cover folder,
\* a second scan_folder run in a row over the unchanged tree leaves every track
\* record with the id and the field values the first run left.
C1_ScanIdempotent == SecondScanDone => tracks = snapshot

\* C2 (no duplicate rows): whatever scans and other operations have run, table
\* tracks holds at most one row per file path, and the id of the row of a path is
\* the id the scanner derives from that path, the same after every scan.
C2_NoDuplicateRows ==
    \A r1, r2 \in tracks :
        /\ r1.file_path = r2.file_path => r1 = r2
        /\ r1.id = generate_id(r1.file_path)

\* a row written by the first scan has been written again by the second, after a
\* call in between had changed it
C2_RescannedChangedRow ==
    /\ scans = 1
    /\ last.op = "process_file" /\ last.result = "written"
    /\ \E r \in last.before : r.is_saved = 1 \/ Truthy(r.enhanced_file_path)
    /\ Cardinality(tracks) = 2

\* scan_folder has just returned from a walk of the folder
ScanReturned == last.op = "scan_folder" /\ last.result = "returned"

\* process_file has just been called and has written the file's row
FileWritten == last.op = "process_file" /\ last.result = "written"

\* the files scan_folder takes for standard files, and the readable ones among them
StandardPaths ==
    {p \in DOMAIN fs : p.suffix \in SUPPORTED_FORMATS /\ ~Contains(p.stem, ENHANCED_MARKER)}

ReadablePaths == {p \in StandardPaths : fs[p].kind = "audio"}

RowsWithPath(path_str) == {r \in tracks : r.file_path = path_str}

\* the files d/b_enhanced.<ext'> next to the standard file p = d/b.<ext>
Siblings(p) ==
    {q \in DOMAIN fs : /\ q.suffix \in SUPPORTED_FORMATS
                        /\ q.parent = p.parent
                        /\ q.stem = p.stem \o ENHANCED_MARKER}

C4_NoRecordForFailingFile ==
    ScanReturned =>
        \A p \in StandardPaths : (p \in ReadablePaths) <=> (RowsWithPath(PathStr(p)) # {})

\* C4 (partial-failure tolerance, amended): a file that fails does not end the scan
\* and processing it writes nothing, so that the record it may have from an earlier
\* scan is left as it was; when scan_folder finishes, every standard file that did
\* not fail has a record, and after a scan of an empty catalog no failing file has.
C4_FailingFileWritesNothing ==
    /\ [](ScanReturned => \A p \in ReadablePaths : RowsWithPath(PathStr(p)) # {})
    /\ []((ScanReturned /\ scans = 1 /\ calls = 0)
            => \A p \in StandardPaths \ ReadablePaths : RowsWithPath(PathStr(p)) = {})
    /\ []((last.op = "process_file" /\ last.result # "written")
            => (phase = "PerFileProcessing" /\ RowsWithPath(last.target) = last.before))
    /\ [][(ScanProcessFile /\ last'.result # "written")
            => UNCHANGED <<tracks, artists, albums, covers>>]_vars

\* a scan has returned after a file with a record from an earlier scan failed and
\* another file was written
C4_FailedBesideWritten ==
    /\ ScanReturned
    /\ TrackA \in StandardPaths \ ReadablePaths
    /\ RowsWithPath(PathStr(TrackA)) # {}
    /\ TrackB \in ReadablePaths /\ RowsWithPath(PathStr(TrackB)) # {}

\* the enhanced files scan_folder records under the base key of the standard file p
LinkedTo(p) ==
    {q \in DOMAIN fs : /\ q.suffix \in SUPPORTED_FORMATS
                        /\ Contains(q.stem, ENHANCED_MARKER)
                        /\ JoinStr(q.parent, Remove(q.stem, ENHANCED_MARKER))
                             = JoinStr(p.parent, p.stem)}

\* C5 (full replacement on rescan): when process_file has written the row of a file,
\* is_saved and play_count are 0, enhancement_preset and enhanced_at are NULL, lyrics
\* is what lyrics.lrc holds, and has_enhanced_version and enhanced_file_path are what
\* the sibling link of this scan gives, whatever the row held before.
C5_RescanReplacesRow ==
    FileWritten =>
        \A p \in DOMAIN fs : PathStr(p) = last.target =>
            /\ RowsWithPath(last.target) # {}
            /\ \A r \in RowsWithPath(last.target) :
                  /\ r.is_saved = 0 /\ r.play_count = 0
                  /\ r.enhancement_preset = None /\ r.enhanced_at = None
                  /\ r.lyrics = (IF LyricsFile(p.parent) \in DOMAIN fs
                                 THEN fs[LyricsFile(p.parent)].text ELSE None)
                  /\ IF LinkedTo(p) = {}
                     THEN r.has_enhanced_version = 0 /\ r.enhanced_file_path = None
                     ELSE /\ r.has_enhanced_version = 1
                          /\ r.enhanced_file_path \in {PathStr(q) : q \in LinkedTo(p)}

\* a file is scanned again whose row a call had changed since the scan before
C5_ChangedRowRescanned ==
    /\ FileWritten
    /\ \E r \in last.before : \/ r.is_saved = 1
                                \/ r.lyrics = <<"h","i">>
                                \/ r.enhancement_preset # None

\* what the catalog reads return, over the ids the tables know
ReadResults ==
    UNION ({get_tracks(TRUE), get_saved_tracks, get_recommendations(None, None)}
           \cup {get_track(r.id) : r \in tracks}
           \cup {get_album_tracks(r.album_id) : r \in tracks}
           \cup {get_artist_tracks(r.artist_id) : r \in tracks}
           \cup {get_recommendations(r.id, None) : r \in tracks}
           \cup {get_recommendations(None, r.artist_id) : r \in tracks})

\* a step of scan_folder
ScanStep == ScanStart \/ ScanProcessFile \/ ScanReturn

\* no step of scan_folder removes or changes the record of a file that is not on disk
ScanKeepsRecordsOfMissingFiles ==
    [][ScanStep => \A r \in tracks : ~Exists(r.file_path) => r \in tracks']_vars

\* C6 (deleted files): scan_folder never removes or changes the track record of a
\* file that is no longer on disk, and every catalog read that returns tracks leaves
\* out the records whose file_path does not exist when the read is made.
C6_DeletedFilesHiddenByReads ==
    /\ ScanKeepsRecordsOfMissingFiles
    /\ [](\A r \in ReadResults : Exists(r.file_path))

\* C10 (album art is first-write-wins): when _extract_album_art is called with an
\* album id that has a cover file, it returns '/covers/<album_id>.jpg' and the cover
\* file is afterwards what it was before the call, whatever the file embeds.
C10_FirstCoverWins ==
    (last.op = "process_file" /\ last.art.cover_before # {}) =>
        /\ last.art.returned = CoverUrl(last.art.album_id)
        /\ last.art.album_id \in DOMAIN covers
        /\ covers[last.art.album_id] \in last.art.cover_before

\* a file that embeds another picture is processed when its album has a cover
C10_OtherPictureProcessed ==
    /\ last.op = "process_file" /\ last.target = PathStr(TrackB)
    /\ fs[TrackB].picture = "picture2"
    /\ last.art.cover_before = {Thumbnail("picture1")}

\* the file process_file has just been called on
LastFiles == {p \in DOMAIN fs : PathStr(p) = last.target}

\* the tag is absent: _get_tag returns None
Absent(raw) == get_tag(raw) = None

NonEmpty(text) == text # None /\ text # <<>>

\* the non-emptiness and the artist and album fallbacks of the fallback chain
FallbackDefaults(p, r) ==
    /\ NonEmpty(r.title) /\ NonEmpty(r.artist) /\ NonEmpty(r.album)
    /\ (Absent(fs[p].tags.artist) /\ ~Truthy(parse_filename(p.stem).artist))
          => r.artist = UNKNOWN_ARTIST
    /\ Absent(fs[p].tags.album) => r.album = UNKNOWN_ALBUM

\* C7 as stated (fallback chain): every record process_file writes has a non-empty
\* title, artist and album; with no title tag and no ' - ' in the filename the title
\* is the filename stem; with no artist from tag or filename the artist is 'Unknown
\* Artist'; with no album tag the album is 'Unknown Album'.
C7_TitleIsStemWithoutSeparator ==
    FileWritten =>
        \A p \in LastFiles : \A r \in RowsWithPath(last.target) :
            /\ FallbackDefaults(p, r)
            /\ (Absent(fs[p].tags.title) /\ ~Contains(p.stem, SEPARATOR)) => r.title = p.stem

\* C7 (fallback chain, amended): as above, with the title being the filename stem
\* when there is no title tag and the filename, after the noise phrases are removed
\* and the result is trimmed, has no ' - '.
C7_FallbackChain ==
    FileWritten =>
        \A p \in LastFiles :
            /\ RowsWithPath(last.target) # {}
            /\ \A r \in RowsWithPath(last.target) :
                  /\ FallbackDefaults(p, r)
                  /\ (Absent(fs[p].tags.title) /\ ~Contains(CleanName(p.stem), SEPARATOR))
                        => r.title = p.stem

\* a file with no tags and no separator in its name has been written with all three
\* fallbacks
C7_AllFallbacksUsed ==
    /\ FileWritten
    /\ \E p \in LastFiles : \E r \in RowsWithPath(last.target) :
          /\ fs[p].tags = NoTags
          /\ ~Contains(CleanName(p.stem), SEPARATOR)
          /\ r.title = p.stem /\ r.artist = UNKNOWN_ARTIST /\ r.album = UNKNOWN_ALBUM

\* the text holds one of the channel keywords, whatever the case of its letters
HasChannelKeyword(text) ==
    \E k \in 1..Len(channel_keywords) : \E i \in 1..Len(text) :
        /\ i + Len(channel_keywords[k]) - 1 <= Len(text)
        /\ Lower(SubSeq(text, i, i + Len(channel_keywords[k]) - 1)) = channel_keywords[k]

\* C8 (channel-name override): for a file with a non-empty artist tag, the record's
\* artist is the artist parsed from the filename when the tag holds a channel keyword
\* (in any case) and the parser yields an artist, and the tag artist in every other
\* case.
C8_ChannelNameOverride ==
    FileWritten =>
        \A p \in LastFiles : \A r \in RowsWithPath(last.target) :
            ~Absent(fs[p].tags.artist) =>
                r.artist = IF /\ HasChannelKeyword(get_tag(fs[p].tags.artist))
                              /\ Truthy(parse_filename(p.stem).artist)
                           THEN parse_filename(p.stem).artist
                           ELSE get_tag(fs[p].tags.artist)

\* a file tagged with a channel name in capitals has been written with the artist
\* of its filename
C8_ChannelNameReplaced ==
    /\ FileWritten
    /\ \E p \in LastFiles : \E r \in RowsWithPath(last.target) :
          /\ HasChannelKeyword(fs[p].tags.artist)
          /\ ~LooksLikeChannelExactCase(fs[p].tags.artist)
          /\ r.artist = parse_filename(p.stem).artist
          /\ r.artist # fs[p].tags.artist

\* the two parts of a name around its first ' - '
TwoParts(name) ==
    [artist |-> Strip(SubSeq(name, 1, Find(name, SEPARATOR) - 1)),
     title  |-> Strip(SubSeq(name, Find(name, SEPARATOR) + Len(SEPARATOR), Len(name)))]

\* what _parse_filename returns for the file's name, and what a file without title
\* and artist tags is recorded with, are the two parts of the name
ParsedAsTwoParts(p, name) ==
    /\ parse_filename(p.stem) = TwoParts(name)
    /\ (Absent(fs[p].tags.title) /\ Absent(fs[p].tags.artist)) =>
          \A r \in RowsWithPath(last.target) :
              r.artist = TwoParts(name).artist /\ r.title = TwoParts(name).title

\* C9 as stated (two-part names): for a filename stem that contains ' - ' after the
\* noise phrases are removed, _parse_filename returns the trimmed part left of the
\* first ' - ' as artist and the trimmed part right of it as title, whatever the word
\* counts.
C9_SplitsAfterNoiseRemoval ==
    FileWritten =>
        \A p \in LastFiles :
            Contains(RemoveSuffixes(p.stem, 1), SEPARATOR)
                => ParsedAsTwoParts(p, RemoveSuffixes(p.stem, 1))

\* C9 (two-part names, amended): for a filename stem that contains ' - ' after the
\* noise phrases are removed and the surrounding whitespace is trimmed,
\* _parse_filename returns the trimmed part left of the first ' - ' as artist and the
\* trimmed part right of it as title, whatever the word counts; 'A - T (Official
\* Video)' yields artist 'A' and title 'T'.
C9_SplitsTrimmedName ==
    FileWritten =>
        \A p \in LastFiles :
            /\ Contains(Strip(RemoveSuffixes(p.stem, 1)), SEPARATOR)
                  => ParsedAsTwoParts(p, Strip(RemoveSuffixes(p.stem, 1)))
            /\ p.stem = EXAMPLE_NAME
                  => parse_filename(p.stem) = [artist |-> <<"A">>, title |-> <<"T">>]

\* the example file, without tags, has been written with artist 'A' and title 'T'
C9_ExampleParsed ==
    /\ FileWritten
    /\ \E p \in LastFiles : \E r \in RowsWithPath(last.target) :
          /\ p.stem = EXAMPLE_NAME /\ fs[p].tags = NoTags
          /\ r.artist = <<"A">> /\ r.title = <<"T">>

\* _extract_album_art was called for p with no cover of the album yet and found an
\* embedded picture that cannot be decoded
ArtFailed(p) == last.art.cover_before = {} /\ ImageData(fs[p]) = "broken"

\* lyrics.lrc is next to p and cannot be read as UTF-8 text
LyricsFailed(p) ==
    /\ LyricsFile(p.parent) \in DOMAIN fs
    /\ fs[LyricsFile(p.parent)].kind # "text"

\* the row of p with the given image_path and lyrics, every other column being what
\* process_file derives from the file, linked to the enhanced sibling if there is one
RowOf(p, meta, image_path, lyrics) ==
    LinkEnhanced({NewRow(TrackRecord(p, fs[p], meta, generate_id(PathStr(p)),
                                     generate_id(meta.artist \o <<"-">> \o meta.album),
                                     image_path, lyrics))},
                 generate_id(PathStr(p)),
                 EnhancedFor(JoinStr(p.parent, p.stem)))

DegradedRow(p, image_path, lyrics) ==
    RowOf(p, ResolveMetadata(p.stem, fs[p].tags.title, fs[p].tags.artist,
                             fs[p].tags.album),
          image_path, lyrics)

\* C11 (degradation without loss): when process_file has been called on a file whose
\* tags are readable and the album-art extraction failed (no cover yet, embedded
\* picture not decodable) or lyrics.lrc could not be read, the file's row is in table
\* tracks, with image_path (respectively lyrics) None and every other column as it
\* is derived from the file without the failure.
C11_DegradesWithoutLoss ==
    \A p \in LastFiles :
        (/\ last.op = "process_file"
         /\ p \in ReadablePaths
         /\ ArtFailed(p) \/ LyricsFailed(p))
        => RowsWithId(tracks, generate_id(PathStr(p))) =
               DegradedRow(p,
                           IF ArtFailed(p) THEN None ELSE last.art.returned,
                           IF LyricsFailed(p) THEN None
                           ELSE ReadLyrics(LyricsFile(p.parent)))

\* a file with an undecodable picture has been processed next to an unreadable
\* lyrics.lrc, and its row has been written
C11_BothFailedAndWritten ==
    /\ FileWritten /\ last.target = PathStr(TrackA)
    /\ TrackA \in ReadablePaths
    /\ ArtFailed(TrackA) /\ LyricsFailed(TrackA)
    /\ \E r \in tracks : r.file_path = PathStr(TrackA) /\ r.title = <<"a">>

\* add_track has just been called and one of its operations failed
AddFailed == last.op = "add_track" /\ last.result = "rolled back"

\* C12 (upsert failure is contained): when a statement of add_track or its commit
\* fails, add_track returns without raising, having rolled back, and tables tracks,
\* artists and albums are as they were before the call.
C12_UpsertFailureContained ==
    [][(calls' # calls /\ AddFailed') => UNCHANGED <<tracks, artists, albums>>]_vars

\* an add_track call for a track that has no row failed, with rows of other tracks
\* in the tables
C12_FailedAddOfNewTrack ==
    /\ AddFailed
    /\ last.before = {}
    /\ tracks # {} /\ artists # {} /\ albums # {}

\* the two descriptions of add_track's statements agree
AddTrackIsItsStatements ==
    \A t \in AddInputs : add_track(t) = Executed(t, STATEMENTS, Stored)

\* C18 (derived counts are consistent): after any sequence of add_track calls, every
\* album row's total_tracks is the number of track rows with its album_id, and every
\* artist row's total_tracks and total_albums are the number of track rows and of
\* distinct album_ids with its artist_id.
C18_CountsConsistent ==
    /\ \A a \in albums :
           a.total_tracks = Cardinality({r \in tracks : r.album_id = a.id})
    /\ \A a \in artists :
           /\ a.total_tracks = Cardinality({r \in tracks : r.artist_id = a.id})
           /\ a.total_albums =
                  Cardinality({r.album_id : r \in {q \in tracks : q.artist_id = a.id}})

\* the tracknumber tag of the file process_file has just been called on
TrackNumberTag == fs[TaggedFile].tags.tracknumber

AllSpaces(s) == \A i \in 1..Len(s) : IsSpace(s[i])

AllDigits(s) == s # <<>> /\ \A i \in 1..Len(s) : IsDigit(s[i])

\* raw[1..e] is the part of the tag before its first '/'
HeadEndsAt(raw, e) ==
    /\ \A i \in 1..e : raw[i] # "/"
    /\ e = Len(raw) \/ raw[e + 1] = "/"

\* the text after the sign of raw[a..b], if it has one
Unsigned(raw, a, b) ==
    IF raw[a] \in {"+", "-"} THEN SubSeq(raw, a + 1, b) ELSE SubSeq(raw, a, b)

\* digits, where two digits may have one '_' between them
GroupedDigits(ds) ==
    /\ ds # <<>> /\ IsDigit(ds[1]) /\ IsDigit(ds[Len(ds)])
    /\ \A i \in 1..Len(ds) : IsDigit(ds[i]) \/ ds[i] = "_"
    /\ \A i \in 1..Len(ds) - 1 : ~(ds[i] = "_" /\ ds[i + 1] = "_")

\* raw[a..b] is a decimal integer: a sign, if any, and digits
IsSigned10(raw, a, b) == AllDigits(Unsigned(raw, a, b))

\* raw[a..b] is a decimal integer as int() reads one
IsGrouped10(raw, a, b) == GroupedDigits(Unsigned(raw, a, b))

Signed10(raw, a, b) ==
    IF raw[a] = "-" THEN 0 - DecimalValue(SelectSeq(Unsigned(raw, a, b), IsDigit))
    ELSE DecimalValue(SelectSeq(Unsigned(raw, a, b), IsDigit))

\* the N of a tag 'N' or 'N/M' with N a decimal integer; no number for any other tag
NumbersOfForm(raw) ==
    IF raw = None THEN {}
    ELSE {<<Signed10(raw, 1, e)>> :
             e \in {k \in 1..Len(raw) : HeadEndsAt(raw, k) /\ IsSigned10(raw, 1, k)}}

\* the same, with white space allowed before and after N and single underscores
\* between its digits
NumbersOfSpacedForm(raw) ==
    IF raw = None THEN {}
    ELSE {<<Signed10(raw, ab[1], ab[2])>> :
             ab \in {x \in (1..Len(raw)) \X (1..Len(raw)) :
                        /\ x[1] <= x[2]
                        /\ IsGrouped10(raw, x[1], x[2])
                        /\ AllSpaces(SubSeq(raw, 1, x[1] - 1))
                        /\ \E e \in x[2]..Len(raw) :
                               /\ HeadEndsAt(raw, e)
                               /\ AllSpaces(SubSeq(raw, x[2] + 1, e))}}

TrackNumbersWritten ==
    {r.track_number : r \in RowsWithPath(PathStr(TaggedFile))}

\* C13 as stated (track number derivation): when process_file has been called on a
\* file, the file's record is written, with track_number N if the tracknumber tag
\* is 'N/M' or 'N' with N a decimal integer, and none for any other tag value or no
\* tag.
C13_TrackNumberOfStrictForm ==
    (last.op = "process_file" /\ TaggedFile \in DOMAIN fs) =>
        TrackNumbersWritten = IF NumbersOfForm(TrackNumberTag) = {} THEN {NoInt}
                              ELSE NumbersOfForm(TrackNumberTag)

\* C13 as amended: when process_file has been called on a file, the file's record
\* is written, with track_number N if the tracknumber tag is 'N/M' or 'N' with N a
\* decimal integer as int() reads one (white space allowed before and after it,
\* single underscores between its digits), and none for any other tag value or no
\* tag.
C13_TrackNumberDerivation ==
    (last.op = "process_file" /\ TaggedFile \in DOMAIN fs) =>
        TrackNumbersWritten = IF NumbersOfSpacedForm(TrackNumberTag) = {} THEN {NoInt}
                              ELSE NumbersOfSpacedForm(TrackNumberTag)

\* the file with tag ' 3 /12' has been processed and its record has track number 3
C13_SpacedTagProcessed ==
    /\ FileWritten /\ TaggedFile \in DOMAIN fs
    /\ TrackNumberTag = <<" ","3"," ","/","1","2">>
    /\ TrackNumbersWritten = {<<3>>}

\* the files the scan under way has processed, in order
Journaled == [i \in 1..Len(journal) |-> journal[i].file]

\* every standard file is in seq exactly once and nothing else is
EachOnce(seq) ==
    /\ \A i, k \in 1..Len(seq) : seq[i] = seq[k] => i = k
    /\ {seq[i] : i \in 1..Len(seq)} = StandardPaths

\* the phases follow each other as Idle, Walking, PerFileProcessing, Idle (a folder
\* without standard files has no per-file step), one file is processed per step, and
\* the scan returns only when no file is left
ScanAdvances ==
    /\ phase = "Idle" => phase' \in {"Idle", "Walking"}
    /\ phase = "Walking" =>
           \/ phase' = "PerFileProcessing"
           \/ phase' = "Idle" /\ StandardPaths = {}
    /\ phase = "PerFileProcessing" =>
           \/ phase' = "PerFileProcessing" /\ standard_files # <<>>
           \/ phase' = "Idle" /\ standard_files = <<>>
    /\ phase' = "PerFileProcessing" =>
           /\ Journaled' = Append(Journaled, Head(standard_files))
           /\ standard_files' = Tail(standard_files)

\* C14 (scan completion): a scan_folder run over the folder's tree goes through the
\* phases in the order Idle, Walking, PerFileProcessing, Idle; while it is under way
\* the files processed so far and those still to process are the standard files,
\* each exactly once, processed one per step; and the run returns to Idle, also
\* when per-file steps fail.
C14_ScanCompletes ==
    /\ [](phase # "Idle" => EachOnce(Journaled \o standard_files))
    /\ [][ScanAdvances]_vars
    /\ (phase # "Idle") ~> (phase = "Idle")

\* a scan has returned to Idle over a folder whose only standard file cannot be read
C14_ReturnedAfterFailures ==
    /\ ScanReturned /\ phase = "Idle"
    /\ StandardPaths = {TrackA} /\ fs[TrackA].kind = "corrupt"
    /\ tracks = {}

\* the enhanced sibling scan_folder has registered for the file, if it exists
SiblingOf(file_path) ==
    {q \in {EnhancedFor(JoinStr(file_path.parent, file_path.stem))} : q \in DOMAIN fs}

\* every row in the commit is linked to every sibling of the file
CommittedLinked(rows, siblings) ==
    \A r \in rows : \A q \in siblings :
        r.has_enhanced_version = 1 /\ r.enhanced_file_path = PathStr(q)

\* C15 (single write per file): during a scan, process_file commits to the catalog
\* store at most once per file (exactly once for a file whose record it writes), also
\* for a file with an enhanced sibling, and no commit leaves the file's record
\* without its enhanced-variant fields.
C15_SingleWritePerFile ==
    \A i \in 1..Len(journal) :
        /\ Len(journal[i].commits) <= 1
        /\ (last.op = "process_file" /\ last.result = "written" /\ i = Len(journal))
               => Len(journal[i].commits) = 1
        /\ \A k \in 1..Len(journal[i].commits) :
               CommittedLinked(journal[i].commits[k], SiblingOf(journal[i].file))

\* the stem has no ' - ' once the noise phrases are removed
NoSeparatorLeft(p) == ~Contains(RemoveSuffixes(p.stem, 1), SEPARATOR)

\* C16 as stated (filename parsing without a separator): for a filename stem that
\* contains no ' - ' after the noise phrases are removed, _parse_filename returns no
\* artist and the whole cleaned string as title.
C16_WholeStringAsTitle ==
    FileWritten =>
        \A p \in LastFiles :
            NoSeparatorLeft(p) =>
                parse_filename(p.stem) = [artist |-> None, title |-> CleanName(p.stem)]

\* C16 as amended: for a filename stem that contains no ' - ' after the noise phrases
\* are removed, _parse_filename returns no artist and no title; a file without title
\* and artist tags is then recorded with its whole stem, noise phrases included, as
\* title and with 'Unknown Artist'.
C16_NothingParsedWithoutSeparator ==
    FileWritten =>
        \A p \in LastFiles :
            NoSeparatorLeft(p) =>
                /\ parse_filename(p.stem) = [artist |-> None, title |-> None]
                /\ (Absent(fs[p].tags.title) /\ Absent(fs[p].tags.artist)) =>
                       /\ RowsWithPath(last.target) # {}
                       /\ \A r \in RowsWithPath(last.target) :
                              r.title = p.stem /\ r.artist = UNKNOWN_ARTIST

\* a file without tags, whose name has a noise phrase and no ' - ', has been written
\* with its whole stem as title
C16_NoisyNameWithoutSeparator ==
    /\ FileWritten
    /\ \E p \in LastFiles : \E r \in RowsWithPath(last.target) :
          /\ NoSeparatorLeft(p) /\ fs[p].tags = NoTags
          /\ CleanName(p.stem) # p.stem /\ CleanName(p.stem) # <<>>
          /\ r.title = p.stem

\* the rows the enhance endpoint has linked to a file it produced that still exists
EnhancedByEndpoint ==
    {r \in tracks : /\ r.has_enhanced_version = 1
                     /\ r.enhancement_preset # None
                     /\ Exists(r.enhanced_file_path)}

\* C17 (enhancement survives rescan): no step of a scan_folder run takes the enhanced
\* version from a track that was enhanced through the enhance endpoint and whose
\* produced file still exists: after the step, and so when the scan returns, the
\* track's record still has has_enhanced_version 1 and the path of that file in
\* enhanced_file_path.
C17_EnhancementSurvivesRescan ==
    [][last'.op \in {"scan_folder", "process_file"} =>
          \A r \in EnhancedByEndpoint :
              \E q \in RowsWithId(tracks', r.id) :
                  /\ q.has_enhanced_version = 1
                  /\ q.enhanced_file_path = r.enhanced_file_path]_vars

\* C19: in every state that scans, the enhance endpoint, the delete-enhanced endpoint
\* and add_track can reach, a track row has has_enhanced_version = 1 exactly when its
\* enhanced_file_path is not NULL.
C19_FlagAndPathAgree ==
    \A r \in tracks : (r.has_enhanced_version = 1) <=> (r.enhanced_file_path # None)

\* a track that a scan linked to its enhanced sibling has had its enhanced version
\* deleted through the endpoint
C19_LinkedThenDeleted ==
    /\ last.op = "delete_enhanced_version"
    /\ last.result = "deleted"
    /\ \E b \in last.before : b.has_enhanced_version = 1
    /\ \E r \in RowsWithId(tracks, last.target) : r.has_enhanced_version = 0

\* the place of a track in a list of track ids, 0 when it is not listed
Place(items, track_id) ==
    IF \E i \in 1..Len(items) : items[i] = track_id
    THEN CHOOSE i \in 1..Len(items) : items[i] = track_id
    ELSE 0

\* the loop of scan_folder is over: table tracks is as the scan leaves it, and
\* snapshot is table tracks as the scan found it (no playlist call writes tracks)
ScanLoopOver == phase # "Idle" /\ standard_files = <<>>

\* the scan under way has written the row of the track again
ReAdded(track_id) ==
    /\ RowsWithId(snapshot, track_id) # {}
    /\ \E i \in 1..Len(journal) :
          /\ generate_id(PathStr(journal[i].file)) = track_id
          /\ journal[i].commits # <<>>

\* C20 (playlist membership survives rescan): no step of a scan changes a row of
\* playlist_tracks, and when a scan has written again the row of a track that
\* get_playlist listed for a playlist, get_playlist lists the track at the same
\* place as before the scan.
C20_MembershipSurvivesRescan ==
    /\ [][last'.op \in {"scan_folder", "process_file"} => UNCHANGED playlist_tracks]_vars
    /\ [](ScanLoopOver =>
            \A pt \in playlist_tracks :
                (RowsWithId(playlists, pt.playlist_id) # {} /\ ReAdded(pt.track_id)) =>
                    /\ get_playlist(pt.playlist_id).found
                    /\ Place(get_playlist(pt.playlist_id).items, pt.track_id)
                         = Place(PlaylistItems(pt.playlist_id, snapshot), pt.track_id))

\* the part of C20 that is about the rows: no step of a scan changes playlist_tracks,
\* a track a playlist listed before a scan is listed after it, and the tracks listed
\* before are listed in the same order
C20_RowsAndOrderKept ==
    /\ [][last'.op \in {"scan_folder", "process_file"} => UNCHANGED playlist_tracks]_vars
    /\ [](ScanLoopOver =>
            \A p \in playlists :
                LET before == PlaylistItems(p.id, snapshot)
                    after  == PlaylistItems(p.id, tracks)
                IN  before = SelectSeq(after, LAMBDA id : RowsWithId(snapshot, id) # {}))

\* a rescan has written again the row of a track that a playlist lists
C20_ListedTrackReAdded ==
    /\ ScanLoopOver
    /\ \E pt \in playlist_tracks :
          /\ RowsWithId(playlists, pt.playlist_id) # {}
          /\ ReAdded(pt.track_id)
          /\ Place(get_playlist(pt.playlist_id).items, pt.track_id) > 0

\* C21 (playlist deletion cascades): when delete_playlist has just returned true for a
\* playlist, table playlist_tracks holds no row of that playlist.
C21_DeletionCascades ==
    (last.op = "delete_playlist" /\ last.result = "200") =>
        RowsOfPlaylist(last.target) = {}

\* C22 (adding to a playlist rejects unknown ids): a call of add_track_to_playlist
\* either answers 404 and leaves playlist_tracks as it was, or adds a row whose
\* playlist is in table playlists and whose track is in table tracks.
C22_UnknownIdsRejected ==
    [][last'.op = "add_track_to_playlist" =>
          \/ /\ last'.result = "404 Playlist or track not found"
             /\ UNCHANGED playlist_tracks
          \/ \A pt \in playlist_tracks' \ playlist_tracks :
                /\ RowsWithId(playlists, pt.playlist_id) # {}
                /\ RowsWithId(tracks, pt.track_id) # {}]_vars

\* C23 (removal result is truthful): when remove_track_from_playlist has just
\* returned, it returned true (the endpoint answered 200) exactly when the playlist
\* held a row of the track before the call and the call deleted it.
C23_RemovalResultTruthful ==
    last.op = "remove_track_from_playlist" =>
        ((last.result = "200") <=>
            \E pt \in last.before : pt.track_id = last.target /\ pt \notin playlist_tracks)

\* C24 (update result is truthful): when update_playlist has just returned, it
\* returned true (the endpoint answered 200) exactly when the playlist existed,
\* whatever name and description were supplied or omitted.
C24_UpdateResultTruthful ==
    last.op = "update_playlist" => ((last.result = "200") <=> (last.before # {}))

\* C25 (GET /playlists/{playlist_id}/tracks): in every state the endpoint answers
\* 404 'Playlist not found' for a playlist that is not in table playlists, and
\* with the tracks get_playlist lists for a playlist that is.
C25_MissingPlaylistIs404 ==
    \A playlist_id \in PlaylistIds :
        IF RowsWithId(playlists, playlist_id) = {}
        THEN get_playlist_tracks_alt(playlist_id).status = "404 Playlist not found"
        ELSE /\ get_playlist_tracks_alt(playlist_id).status = "200"
             /\ get_playlist_tracks_alt(playlist_id).items
                  = PlaylistItems(playlist_id, tracks)

\* main.py lines 253-254: the file the enhance endpoint writes for a file and a preset
EnhancedVersion(file_path, preset) ==
    [parent |-> file_path.parent,
     stem |-> file_path.stem \o ENHANCED_MARKER \o <<"_">> \o preset,
     suffix |-> file_path.suffix]

\* the track (given by its file) was enhanced with the preset and the enhanced file
\* still exists: the enhance endpoint alone writes a file of this name
EnhancedWith(file_path, preset) == EnhancedVersion(file_path, preset) \in DOMAIN fs

\* the row of the track still records the enhancement with the preset
RecordsEnhancement(file_path, preset) ==
    \E r \in RowsWithId(tracks, generate_id(PathStr(file_path))) :
        /\ r.enhancement_preset = preset
        /\ r.enhanced_file_path = PathStr(EnhancedVersion(file_path, preset))

\* C26 as stated (enhance is idempotent per preset): once a track was enhanced with
\* a preset and the enhanced file still exists, an enhance call for the track with
\* that preset answers already_exists, whether FFmpeg would succeed or not, and
\* leaves table tracks and the files as they were.
C26_EnhanceIdempotent ==
    [][\A preset \in EnhancePresets, ffmpeg_ok \in BOOLEAN :
          (/\ EnhancedWith(TrackB, preset)
           /\ enhance_track(generate_id(PathStr(TrackB)), preset, ffmpeg_ok))
          => (last'.result = "already_exists" /\ UNCHANGED <<tracks, fs>>)]_vars

\* C26 (enhance is idempotent per preset), amended: the same, for a track whose
\* audio file exists and whose row still records the enhancement with that preset.
C26_EnhanceIdempotentWhileRecorded ==
    [][\A preset \in EnhancePresets, ffmpeg_ok \in BOOLEAN :
          (/\ EnhancedWith(TrackB, preset)
           /\ TrackB \in DOMAIN fs
           /\ RecordsEnhancement(TrackB, preset)
           /\ enhance_track(generate_id(PathStr(TrackB)), preset, ffmpeg_ok))
          => (last'.result = "already_exists" /\ UNCHANGED <<tracks, fs>>)]_vars

\* the enhance endpoint has answered already_exists for a track it had enhanced
C26_EnhancedTwice ==
    /\ last.op = "enhance_track"
    /\ last.result = "already_exists"
    /\ \E preset \in EnhancePresets :
          EnhancedWith(TrackB, preset) /\ RecordsEnhancement(TrackB, preset)

\* the track ids of the rows of a playlist, in the order of position
RowOrder(playlist_id) == ByPosition(RowsOfPlaylist(playlist_id))

Without(items, track_id) == SelectSeq(items, LAMBDA id : id # track_id)

\* what a step does to the order of the rows of a playlist: add_track_to_playlist
\* leaves it or puts the track last, remove_track_from_playlist leaves it or takes
\* the track out, and no other step changes it
OrderFollowsCalls(playlist_id) ==
    IF last'.op = "add_track_to_playlist" /\ calls' # calls
    THEN RowOrder(playlist_id)' \in {RowOrder(playlist_id),
                                     Append(RowOrder(playlist_id), last'.target)}
    ELSE IF last'.op = "remove_track_from_playlist" /\ calls' # calls
    THEN RowOrder(playlist_id)' \in {RowOrder(playlist_id),
                                     Without(RowOrder(playlist_id), last'.target)}
    ELSE RowOrder(playlist_id)' = RowOrder(playlist_id)

\* C27 (playlist positions): the rows of one playlist have pairwise distinct
\* positions and no track twice; every add puts its track last in the order of
\* position and every remove only takes its track out, so that the rows are in the
\* order in which their tracks were last added; and get_playlist lists, in that
\* order, the rows whose track is in table tracks.
C27_PositionsFollowAdding ==
    /\ [](\A r1, r2 \in playlist_tracks :
             (r1.playlist_id = r2.playlist_id /\ r1 # r2) =>
                 (r1.position # r2.position /\ r1.track_id # r2.track_id))
    /\ [][\A playlist_id \in PlaylistIds : OrderFollowsCalls(playlist_id)]_vars
    /\ [](\A p \in playlists :
             get_playlist(p.id).items =
                 SelectSeq(RowOrder(p.id), LAMBDA id : RowsWithId(tracks, id) # {}))

\* a track was taken out of a playlist that still lists another, added after it
C27_RemovedFromBefore ==
    /\ last.op = "remove_track_from_playlist"
    /\ \E gone \in last.before \ playlist_tracks :
          /\ get_playlist(gone.playlist_id).items # <<>>
          /\ \A pt \in RowsOfPlaylist(gone.playlist_id) : pt.position > gone.position

\* C28 (album identifiers separate albums): two tracks have the same album_id only
\* when they have the same artist and the same album, the album_id of a track is
\* the id of the key of its artist and album and of no other pair of names, and
\* every track of an albums row has the artist of that row.
C28_AlbumIdsSeparateAlbums ==
    /\ \A r1, r2 \in tracks :
          r1.album_id = r2.album_id => (r1.artist = r2.artist /\ r1.album = r2.album)
    /\ \A r \in tracks : \A artist \in TagNames, album \in TagNames :
          r.album_id = generate_id(AlbumKey(artist, album))
              <=> (artist = r.artist /\ album = r.album)
    /\ \A a \in albums : \A r \in tracks : r.album_id = a.id => r.artist = a.artist

=============================================================================
